---- MODULE Spec2Model ----
(***************************************************************************)
(* A state-machine model of the vtkplotter window manager (Plotter) and of *)
(* the Prop/Actor data model it displays.                                  *)
(*                                                                         *)
(* Conventions                                                             *)
(*   - Python None is the string "None" for node-valued slots, -1 for      *)
(*     renderer indices and 0 for object handles (axes, back-face          *)
(*     properties).                                                        *)
(*   - A vtkRenderer is the ordered list of its view props (scene[r]);     *)
(*     AddActor appends unless present, RemoveActor deletes.               *)
(*   - 2D scalar bars and axes representations are decorations kept in     *)
(*     their own per-renderer sets (barsShown, axesAttached): they are     *)
(*     vtkActor2D / widgets and never members of vtkRenderer.GetActors().  *)
(*   - Opacities are fixed-point numbers in units of 1/OpScale.            *)
(*   - The add-ons module (addAxes, addScalarBar, addScalarBar3D) is not   *)
(*     part of the sources; its effect is modelled from the specification. *)
(***************************************************************************)
EXTENDS Integers, Sequences, FiniteSets, TLC

\* ------------------------------------------------------------------ bounds
MaxRenderers == 2     \* largest number of renderers of a Plotter
MaxShows     == 3     \* number of Plotter.show() calls explored
MaxEdits     == 2     \* number of add()/remove() calls explored
MaxListLen   == 2     \* longest actor list passed to show()
MaxBookings  == 2     \* scalar-bar bookings explored
MaxKeys      == 4     \* key presses explored
OpScale      == 1000  \* resolution of the fixed-point opacities
MaxMoves     == 5     \* addPos() calls explored
MaxStep      == 3     \* longest single displacement
MaxTrailLen  == 4     \* largest maxlength of a trail
MaxTrailN    == 3     \* largest number of trail segments
MaxShadows   == 2     \* addShadow() calls explored
MaxDataOps   == 2     \* operations on data sets explored
MaxGridN     == 1000  \* largest renderer count N given to Plotter
MaxQueries   == 3     \* closestPoint() calls explored
MaxCloses    == 2     \* closeWindow() calls explored

\* --------------------------------------------------------------- constants
None == "None"
NoAt == -1            \* show(at=None)
BookedLen2D == 5      \* length of the list booked by Actor.addScalarBar
BookedLen3D == 9      \* length of the list booked by Actor.addScalarBar3D
ShowLen2D   == 5      \* length Plotter.show() takes for a 2D booking
ShowLen3D   == 10     \* length Plotter.show() takes for a 3D booking

ActorNodes  == {"a1", "a2"}        \* Actor instances (vtkActor)
TrailNodes  == {"t1"}              \* the trail Actor of a1
VolumeNodes == {"v1"}              \* Volume instances (vtkVolume)
ShadowIds   == <<"s1", "s2", "s3">> \* the shadow Actors, in order of creation
ShadowNodes == {ShadowIds[i] : i \in DOMAIN ShadowIds}
TextNodes   == {"c1", "c2"}        \* corner text annotations (vtkCornerAnnotation)
Node        == ActorNodes \cup TrailNodes \cup VolumeNodes \cup ShadowNodes \cup TextNodes
TrailOf(n)  == IF n = "a1" THEN "t1" ELSE None

IsActor(p)  == p \in ActorNodes \cup TrailNodes \cup ShadowNodes
IsVolume(p) == p \in VolumeNodes
IsText(p)   == p \in TextNodes

Range(s) == {s[i] : i \in DOMAIN s}

VARIABLES
  \* ---- Plotter
  nrend,           \* len(self.renderers)
  offscreen,       \* self.offscreen (then self.interactor is None)
  actors,          \* self.actors
  renderer,        \* index of self.renderer in self.renderers, -1 for None
  interactive,     \* self.interactive
  initializedIren, \* self.initializedIren
  scalarbars,      \* self.scalarbars
  axes,            \* self.axes, the axes style
  axes_instances,  \* self.axes_instances, 0 for None
  \* ---- renderers
  scene,           \* scene[r]: the view props of renderer r, in order
  barsShown,       \* barsShown[r]: scalar-bar actors displayed in renderer r
  axesAttached,    \* axesAttached[r]: axes representations attached to r
  \* ---- nodes
  pickable,        \* GetPickable()
  renderedAt,      \* Prop.renderedAt
  scalarbar,       \* Prop.scalarbar: <<"none",0>>, <<"list",len>>, <<"actor",k>>
  trail,           \* Prop.trail
  \* ---- history of the run
  showCount,       \* calls of Plotter.show()
  editCount,       \* calls of add()/remove()
  irenInits,       \* calls of interactor.Initialize()
  startCount,      \* calls of interactor.Start()
  sbCount,         \* sbCount[n]: scalar-bar actors created for node n
  axesSerial,      \* axes representations built so far
  bookCount,       \* bookCount[n]: <<addScalarBar calls, addScalarBar3D calls>> on n
  lastOp,          \* the operation that produced this state
  \* ---- a run of the free function show(actors, at=[...])
  freeGroups,      \* the actor groups passed
  freeAt,          \* the `at` list passed
  freeInter,       \* the `interactive` option passed
  freePc,          \* "idle", "loop", "start", "returned" or "raised"
  freeK,           \* position of the loop in freeGroups
  showLog,         \* the per-renderer shows the run has performed
  \* ---- actor properties and the interaction callbacks
  opacity,         \* GetProperty().GetOpacity()
  backface,        \* GetBackfaceProperty(), 0 for None
  bfprop,          \* Actor._bfprop, 0 for None
  clickedActor,    \* self.clickedActor
  keyCount,        \* key presses handled
  bfSerial,        \* back-face properties created so far
  keyPressFunction,\* self.keyPressFunction is set
  verbose,         \* self.verbose
  keyLog,          \* the last key event: key, whether a built-in shortcut acted,
                   \* whether the key was handed to keyPressFunction
  \* ---- positions, trails and shadows (positions are integer 3-vectors)
  position,        \* GetPosition()
  trailPoints,     \* Prop.trailPoints: entries <<"None", 0>> or <<"pt", x>>
  trailSegmentSize,\* Prop.trailSegmentSize as the pair <<maxlength, n>>
  trailOffset,     \* Prop.trailOffset, the zero vector for None
  pathLen,         \* distance travelled since addTrail, in axis-parallel moves
  moveCount,       \* position mutations
  shadow,          \* Prop.shadow
  shadowX,         \* Prop.shadowX, shadowY, shadowZ: <<"None", 0>> or <<"val", v>>
  shadowY,
  shadowZ,
  shadowPlane,     \* the axis and value given to the addShadow call that
                   \* created the present shadow
  shadowCount,     \* calls of addShadow()
  \* ---- the camera
  first_viewup,    \* self._first_viewup
  viewUp,          \* the axis given to camera.SetViewUp, "default" before
  viewupCount,     \* calls of camera.SetViewUp by show()
  viewupShow,      \* the number of the show() call that last set it, 0 for none
  viewupAsked,     \* the non-empty viewup options of the show() calls that got
                   \* as far as the camera, in order
  \* ---- data sets
  points,          \* Actor.poly: the vertex coordinates of the mesh buffer
  scaling,         \* GetScale(), one factor for the three axes
  meshSerial,      \* which buffer Actor.poly is: it grows at each replacement
  voxels,          \* Volume._image: the scalar of each voxel
  imageSerial,     \* which buffer Volume._image is
  dataCount,       \* operations on data sets so far
  lastCall,        \* the last operation on a data set and its outcome
  \* ---- the "x" key
  justremoved,     \* self.justremoved
  xLog,            \* the actor the last "x" press removed and the renderer it was
                   \* in (gone, at), and the same for the "x" press before it
                   \* (prev, prevAt)
  \* ---- scalar arrays
  activePoint,     \* the name of the active scalars of the point data, or None
  activeCell,      \* the name of the active scalars of the cell data, or None
  scals_idx,       \* Actor._scals_idx
  scalarVisibility,\* the mapper's ScalarVisibility flag
  \* ---- locators
  point_locator,   \* Actor.point_locator: <<0, 0>> for None, else the locator's
                   \* number and the number of the buffer it was built on
  cell_locator,    \* Actor.cell_locator, likewise
  locSerial,       \* locators built so far
  locCalls,        \* calls of closestPoint()
  \* ---- the render window
  window,          \* self.window: "open", "finalized" or "deleted" (no attribute)
  interactor,      \* self.interactor: "set", "None" or "deleted" (no attribute)
  closeCount,      \* calls of closeWindow()
  closeLog         \* the last closeWindow call: which form, and what it raised

plotterVars == <<nrend, offscreen, actors, renderer, interactive, initializedIren,
                 scalarbars, axes, axes_instances>>
sceneVars   == <<scene, barsShown, axesAttached>>
nodeVars    == <<pickable, renderedAt, scalarbar, trail>>
histVars    == <<showCount, editCount, irenInits, startCount, sbCount, axesSerial,
                 bookCount, lastOp>>
freeVars    == <<freeGroups, freeAt, freeInter, freePc, freeK, showLog>>
baseVars    == <<plotterVars, sceneVars, nodeVars, histVars>>
handlerVars == <<keyPressFunction, verbose, keyLog>>
keyVars     == <<opacity, backface, bfprop, clickedActor, keyCount, bfSerial, handlerVars>>
shadowVars  == <<shadow, shadowX, shadowY, shadowZ, shadowPlane, shadowCount>>
trailVars   == <<position, trailPoints, trailSegmentSize, trailOffset, pathLen, moveCount,
                 shadowVars>>
camVars     == <<first_viewup, viewUp, viewupCount, viewupShow, viewupAsked>>
dataVars    == <<points, scaling, meshSerial, voxels, imageSerial, dataCount, lastCall>>
pickVars    == <<justremoved, xLog>>
arrayVars   == <<activePoint, activeCell, scals_idx, scalarVisibility>>
locVars     == <<point_locator, cell_locator, locSerial, locCalls>>
winVars     == <<window, interactor, closeCount, closeLog>>
restButPick == <<arrayVars, locVars, winVars>>
restButArrays == <<pickVars, locVars, winVars>>
restButLoc  == <<pickVars, arrayVars, winVars>>
restButWin  == <<pickVars, arrayVars, locVars>>
restVars    == <<pickVars, restButPick>>
extVars     == <<freeVars, keyVars, trailVars, camVars, dataVars, restVars>>
vars        == <<baseVars, extVars>>

baseButLastOp == <<plotterVars, sceneVars, nodeVars, showCount, editCount, irenInits,
                   startCount, sbCount, axesSerial, bookCount>>

Renderers == 0 .. (MaxRenderers - 1)

\* ok: the call ran to its end; ret: what it returned, "self" or "None"
OpRet(name, at, shown, ok, ret) ==
  [op |-> name, at |-> at, shown |-> shown, ok |-> ok, ret |-> ret]
Op(name, at, shown, ok) == OpRet(name, at, shown, ok, "None")
NotShow == Op("other", NoAt, <<>>, TRUE)

\* ------------------------------------------------------- vtkRenderer calls
AddActor(s, p)    == IF p \in Range(s) THEN s ELSE Append(s, p)
RemoveActor(s, p) == LET Keep(x) == x # p IN SelectSeq(s, Keep)

\* "i = self.actors.index(a); del self.actors[i]"
RemoveFirst(s, a) ==
  IF a \notin Range(s) THEN s
  ELSE LET i == CHOOSE k \in DOMAIN s : s[k] = a /\ \A j \in 1 .. (k - 1) : s[j] # a
       IN SubSeq(s, 1, i - 1) \o SubSeq(s, i + 1, Len(s))

RECURSIVE AddAll(_, _)
AddAll(s, ps) == IF ps = <<>> THEN s ELSE AddAll(AddActor(s, Head(ps)), Tail(ps))

\* ----------------------------------------------------- Plotter.__init__
\* interactive defaults to True for a single renderer and to False when N is
\* given (N = 0 stands for None); an off-screen Plotter has no interactor and
\* is never interactive
PlotterInteractive(inter, N, offscr) ==
  ~offscr /\ (IF inter = "None" THEN N = 0 ELSE inter = "True")

DefaultInteractive(n, offscr) == PlotterInteractive("None", IF n = 1 THEN 0 ELSE n, offscr)

PlotterInitWith(n, offscr, axstyle, inter) ==
  /\ nrend = n
  /\ offscreen = offscr
  /\ actors = <<>>
  /\ renderer = -1
  /\ interactive = inter
  /\ initializedIren = FALSE
  /\ scalarbars = {}
  /\ axes = axstyle
  /\ axes_instances = [r \in Renderers |-> 0]
  /\ scene = [r \in Renderers |-> <<>>]
  /\ barsShown = [r \in Renderers |-> {}]
  /\ axesAttached = [r \in Renderers |-> {}]

PlotterInit(n, offscr, axstyle) ==
  PlotterInitWith(n, offscr, axstyle, DefaultInteractive(n, offscr))

\* ------------------------------------------------------------ Prop.__init__
PropInit ==
  /\ pickable = [n \in Node |-> TRUE]
  /\ renderedAt = [n \in Node |-> {}]
  /\ scalarbar = [n \in Node |-> <<"none", 0>>]
  /\ trail = [n \in Node |-> None]

HistInit ==
  /\ showCount = 0
  /\ editCount = 0
  /\ irenInits = 0
  /\ startCount = 0
  /\ sbCount = [n \in Node |-> 0]
  /\ axesSerial = 0
  /\ bookCount = [n \in Node |-> <<0, 0>>]
  /\ lastOp = NotShow

Origin == <<0, 0, 0>>
VecAdd(p, q) == <<p[1] + q[1], p[2] + q[2], p[3] + q[3]>>
VecSub(p, q) == <<p[1] - q[1], p[2] - q[2], p[3] - q[3]>>
NormSq(p) == p[1] * p[1] + p[2] * p[2] + p[3] * p[3]

\* Actor.__init__ (alpha=1, no back-face property) and Plotter.clickedActor
KeysInit ==
  /\ opacity = [n \in Node |-> OpScale]
  /\ backface = [n \in Node |-> 0]
  /\ bfprop = [n \in Node |-> 0]
  /\ clickedActor = None
  /\ keyCount = 0
  /\ bfSerial = 0
  /\ keyPressFunction = FALSE
  /\ verbose = TRUE
  /\ keyLog = [key |-> "None", registered |-> FALSE, builtin |-> FALSE, handed |-> FALSE]

\* Prop.__init__: no trail, trailPoints = [], trailSegmentSize = 0
TrailInit ==
  /\ position = [n \in Node |-> Origin]
  /\ trailPoints = [n \in Node |-> <<>>]
  /\ trailSegmentSize = [n \in Node |-> <<0, 1>>]
  /\ trailOffset = [n \in Node |-> Origin]
  /\ pathLen = [n \in Node |-> 0]
  /\ moveCount = 0
  /\ shadow = [n \in Node |-> None]
  /\ shadowX = [n \in Node |-> <<"None", 0>>]
  /\ shadowY = [n \in Node |-> <<"None", 0>>]
  /\ shadowZ = [n \in Node |-> <<"None", 0>>]
  /\ shadowPlane = [n \in Node |-> <<"none", 0>>]
  /\ shadowCount = 0

\* the arrays the meshes are built with, in the order of the data set
PointArrays(n) == IF n = "a1" THEN <<"A", "Normals", "B">>
                  ELSE IF n = "a2" THEN <<"Normals", "A">> ELSE <<>>
CellArrays(n)  == IF n = "a1" THEN <<"C", "D">> ELSE <<>>

\* Actor.__init__: _scals_idx = 0; no array has been made active
ArrayInit ==
  /\ activePoint = [n \in Node |-> None]
  /\ activeCell = [n \in Node |-> None]
  /\ scals_idx = [n \in Node |-> 0]
  /\ scalarVisibility = [n \in Node |-> FALSE]

\* Actor.__init__: point_locator = None, cell_locator = None
NoLocator == <<0, 0>>
LocInit ==
  /\ point_locator = [n \in Node |-> NoLocator]
  /\ cell_locator = [n \in Node |-> NoLocator]
  /\ locSerial = 0
  /\ locCalls = 0

\* Plotter.__init__: the window is created; off screen the interactor is None,
\* otherwise a vtkRenderWindowInteractor is attached
NoClose == [op |-> "none", raised |-> "none"]
WinInit ==
  /\ window = "open"
  /\ interactor = IF offscreen THEN "None" ELSE "set"
  /\ closeCount = 0
  /\ closeLog = NoClose

\* Plotter.__init__: justremoved = None
PickInit ==
  /\ justremoved = None
  /\ xLog = [gone |-> None, at |-> NoAt, prev |-> None, prevAt |-> NoAt]

\* Plotter.__init__: _first_viewup = True
CamInit ==
  /\ first_viewup = TRUE
  /\ viewUp = "default"
  /\ viewupCount = 0
  /\ viewupShow = 0
  /\ viewupAsked = <<>>

\* the meshes and images the nodes are built with: a mesh of three vertices
\* for the Actors, an image of two voxels for the Volumes
InitialPoints == <<<<0, 0, 0>>, <<1, 0, 0>>, <<0, 1, 0>>>>
InitialImage  == <<0, 2>>

\* a buffer and the node's position and scale, as an operation finds them
Found(serial, data, pos, scl) == [serial |-> serial, data |-> data, matrix |-> <<pos, scl>>]
NoBuffer == Found(0, <<>>, <<0, 0, 0>>, 1)
Call(op, target, raised, printed, ret, arg, before) ==
  [op |-> op, target |-> target, raised |-> raised, printed |-> printed, ret |-> ret,
   arg |-> arg, before |-> before]
NoCall == Call("none", None, "none", FALSE, "None", <<>>, NoBuffer)

\* Actor.__init__ and Volume.__init__: the buffers, no scaling
DataInit ==
  /\ points = [n \in Node |-> IF n \in ActorNodes THEN InitialPoints ELSE <<>>]
  /\ scaling = [n \in Node |-> 1]
  /\ meshSerial = [n \in Node |-> 0]
  /\ voxels = [n \in Node |-> IF n \in VolumeNodes THEN InitialImage ELSE <<>>]
  /\ imageSerial = [n \in Node |-> 0]
  /\ dataCount = 0
  /\ lastCall = NoCall

\* no run of the free function show() is in progress
FreeIdle ==
  /\ freeGroups = <<>>
  /\ freeAt = <<>>
  /\ freeInter = "None"
  /\ freePc = "idle"
  /\ freeK = 0
  /\ showLog = <<>>

\* --------------------------------------------- Plotter.getActors/getVolumes
\* getActors(obj) with an integer obj: the pickable vtkActors of renderer obj.
\* (The test against self.axes_instances[r] never matches a scene member here,
\* axes representations being kept in axesAttached.)
getActors(sc, obj) ==
  IF obj >= nrend THEN <<>>
  ELSE LET Test(p) == IsActor(p) /\ pickable[p] IN SelectSeq(sc[obj], Test)

getVolumes(sc, obj) ==
  IF obj >= nrend THEN <<>>
  ELSE LET Test(p) == IsVolume(p) /\ pickable[p] IN SelectSeq(sc[obj], Test)

\* ------------------------------------------------------- Plotter.show: scan
\* settings.collectable_actors: the corner annotations are registered in it
\* when they are created, with an empty renderedAt (from the specification)
CollectableTexts == TextNodes

\* what one element of the input list appends to scannedacts; selfActors is
\* self.actors at the time
ScanOne(a, selfActors) ==
  IF a = None THEN <<>>
  ELSE IF IsActor(a)
    THEN <<a>> \o (IF trail[a] # None /\ trail[a] \notin Range(selfActors)
                   THEN <<trail[a]>> ELSE <<>>)
               \o (IF shadow[a] # None /\ shadow[a] \notin Range(selfActors)
                   THEN <<shadow[a]>> ELSE <<>>)
  ELSE IF IsText(a) THEN <<a>>
  ELSE IF IsVolume(a) THEN <<a>>
  ELSE <<None>>

\* "if at in a2.renderedAt: self.remove(a2)": the annotations a corner
\* annotation in the input removes; at is the option as passed (NoAt for None)
TextPurge(a, at, rAt) ==
  IF IsText(a) /\ at # NoAt THEN {a2 \in CollectableTexts : at \in rAt[a2]} ELSE {}

RECURSIVE RemoveEach(_, _)
RemoveEach(s, ps) ==
  IF ps = {} THEN s
  ELSE LET a == CHOOSE x \in ps : TRUE IN RemoveEach(RemoveFirst(s, a), ps \ {a})

\* the loop "for a in wannabeacts" from index i on. lst is the list iterated;
\* mutating: it is self.actors itself (show() without actors), which
\* self.remove shortens during the iteration. st: scannedacts so far (acts),
\* the renderedAt sets (rAt), the annotations taken out of the current
\* renderer (gone)
RECURSIVE ScanLoop(_, _, _, _, _)
ScanLoop(lst, i, at, mutating, st) ==
  IF i > Len(lst) THEN st
  ELSE LET a     == lst[i]
           purge == TextPurge(a, at, st.rAt)
           rAt1  == IF renderer # -1
                      THEN [n \in Node |-> IF n \in purge THEN st.rAt[n] \ {renderer}
                                           ELSE st.rAt[n]]
                    ELSE st.rAt
           gone1 == IF renderer # -1 THEN st.gone \cup purge ELSE st.gone
           lst1  == IF mutating THEN RemoveEach(lst, purge) ELSE lst
           one   == ScanOne(a, IF mutating THEN lst1 ELSE <<>>)
       IN ScanLoop(lst1, i + 1, at, mutating,
                   [acts |-> st.acts \o one, rAt |-> rAt1, gone |-> gone1])

\* scan(actors) after "self.actors = []", or scan(self.actors)
scan(given, acts, at) ==
  ScanLoop(IF given THEN acts ELSE actors, 1, at, ~given,
           [acts |-> <<>>, rAt |-> renderedAt, gone |-> {}])

\* the current renderer after the self.remove calls of the scan
SceneAfterScan(gone) ==
  IF renderer # -1
    THEN LET Keep(p) == p \notin gone IN [scene EXCEPT ![renderer] = SelectSeq(@, Keep)]
  ELSE scene

RECURSIVE Dedupe(_, _)
Dedupe(acc, s) ==
  IF s = <<>> THEN acc
  ELSE Dedupe(IF Head(s) \in Range(acc) THEN acc ELSE Append(acc, Head(s)), Tail(s))

\* self.actors after the scan
ActorsAfterScan(given, actors2show) ==
  IF given THEN Dedupe(<<>>, actors2show) ELSE actors2show

SceneAfterAdd_All(s, actors2show) == AddAll(s, actors2show)

\* "add the actors that are not already in scene"
SceneAfterAdd(s, actors2show) ==
  LET Valid(p) == p # None IN AddAll(s, SelectSeq(actors2show, Valid))

\* "remove the ones that are not in actors2show": the nodes show() removes
ToRemove(sc, at, actors2show) ==
  {p \in Range(getActors(sc, at)) \cup Range(getVolumes(sc, at)) :
      p \notin Range(actors2show)}

SceneAfterRemove(sc, at, actors2show) ==
  LET gone == ToRemove(sc, at, actors2show)
      Keep(p) == p \notin gone
  IN SelectSeq(sc[at], Keep)

RenderedAtAfterShow(sc, at, actors2show, rAt) ==
  LET added == {p \in Range(actors2show) : p # None}
      afterAdd == [n \in Node |-> IF n \in added THEN rAt[n] \cup {at}
                                  ELSE rAt[n]]
      gone == ToRemove(sc, at, actors2show)
  IN [n \in Node |-> IF n \in gone THEN afterAdd[n] \ {at} ELSE afterAdd[n]]

\* ------------------------------------------ add-ons (from the specification)
\* addAxes(): builds one representation of style self.axes in the current
\* renderer and records it in the renderer's slot of axes_instances, unless
\* the style is 0 (none) or the slot, inst, is taken
AxesToBuild(inst, style) == style # 0 /\ inst = 0

\* --------------------------------- Plotter.show: scalar-bar materialization
\* the booked specification show() turns into a scalar bar: 0 none, 2 for 2D, 3 for 3D
Materializes(sb) ==
  IF sb[1] = "list" /\ sb[2] = ShowLen2D THEN 2
  ELSE IF sb[1] = "list" /\ sb[2] = ShowLen3D THEN 3
  ELSE 0

ScalarbarAfterShow_KeepBooking(sb, k) == sb

\* a.scalarbar after the loop: the scalar-bar actor replaces the booking
ScalarbarAfterShow(sb, k) == IF Materializes(sb) # 0 THEN <<"actor", k>> ELSE sb

IrenInitDue_Always(initialized, hasIren) == hasIren

\* "if not self.initializedIren and self.interactor": Initialize() is due
IrenInitDue(initialized, hasIren) == ~initialized /\ hasIren

\* ----------------------------------------------------------- Plotter.show
\* given: actors were passed; acts: the flattened list; at: NoAt or an index;
\* inter: the `interactive` option, "None", "True" or "False"
Show(given, acts, at, inter) ==
  LET scanned     == scan(given, acts, at)
      actors2show == scanned.acts
      scene0      == SceneAfterScan(scanned.gone)
      newActors   == ActorsAfterScan(given, actors2show)
      inter1      == IF offscreen THEN "False" ELSE inter
      interactive1 == IF inter1 = "None" THEN (interactive /\ ~offscreen) ELSE inter1 = "True"
      hasIren     == ~offscreen
      closed      == window = "deleted"
      renderOnly  == ~closed /\ at = NoAt /\ nrend > 1 /\ hasIren
      at1         == IF at = NoAt THEN 0 ELSE at
  IN
  /\ showCount < MaxShows
  /\ showCount' = showCount + 1
  /\ actors' = newActors
  /\ interactive' = IF closed THEN interactive ELSE interactive1
  /\ UNCHANGED <<nrend, offscreen, pickable, trail, editCount, bookCount>>
  /\ IF renderOnly
       THEN \* render the whole window and return
            /\ startCount' = IF interactive1 THEN startCount + 1 ELSE startCount
            /\ lastOp' = OpRet("show", at, actors2show, FALSE, "None")
            /\ scene' = scene0
            /\ renderedAt' = scanned.rAt
            /\ UNCHANGED <<renderer, initializedIren, scalarbars, axes, axes_instances,
                           axesAttached, barsShown, scalarbar, irenInits, sbCount,
                           axesSerial>>
     ELSE IF closed \/ at1 >= nrend
       THEN \* no window is left to render into, or
            \* "Error in show(): wrong renderer index"
            /\ lastOp' = OpRet("show", at, actors2show, FALSE, "None")
            /\ scene' = scene0
            /\ renderedAt' = scanned.rAt
            /\ UNCHANGED <<renderer, initializedIren, scalarbars, axes, axes_instances,
                           axesAttached, barsShown, scalarbar, irenInits, startCount,
                           sbCount, axesSerial>>
     ELSE
       LET added   == [scene0 EXCEPT ![at1] = SceneAfterAdd(scene0[at1], actors2show)]
           removed == SceneAfterRemove(added, at1, actors2show)
           build   == AxesToBuild(axes_instances[at1], axes)
           booked  == {n \in Range(newActors) \ {None} : Materializes(scalarbar[n]) # 0}
           newBars == {<<n, sbCount[n] + 1>> : n \in booked}
       IN
       /\ renderer' = at1
       /\ scene' = [added EXCEPT ![at1] = removed]
       /\ renderedAt' = RenderedAtAfterShow(added, at1, actors2show, scanned.rAt)
       /\ axesSerial' = IF build THEN axesSerial + 1 ELSE axesSerial
       /\ axes_instances' = IF build THEN [axes_instances EXCEPT ![at1] = axesSerial + 1]
                            ELSE axes_instances
       /\ axesAttached' = IF build
                            THEN [axesAttached EXCEPT ![at1] = @ \cup {axesSerial + 1}]
                            ELSE axesAttached
       /\ axes' = axes
       /\ initializedIren' = (initializedIren \/ hasIren)
       /\ irenInits' = IF IrenInitDue(initializedIren, hasIren) THEN irenInits + 1
                        ELSE irenInits
       /\ scalarbar' = [n \in Node |->
                          IF n \in booked THEN ScalarbarAfterShow(scalarbar[n], sbCount[n] + 1)
                          ELSE scalarbar[n]]
       /\ sbCount' = [n \in Node |-> IF n \in booked THEN sbCount[n] + 1 ELSE sbCount[n]]
       /\ scalarbars' = scalarbars \cup newBars
       /\ barsShown' = [barsShown EXCEPT ![at1] = (@ \ scalarbars) \cup newBars]
       /\ startCount' = IF hasIren /\ interactive1 THEN startCount + 1 ELSE startCount
       /\ lastOp' = OpRet("show", at1, actors2show, TRUE, "self")

\* ------------------------------------------------------------ Plotter.add
\* add(a): the single-object form; asList: the form add([a])
Add(n, asList) ==
  /\ editCount < MaxEdits
  /\ editCount' = editCount + 1
  /\ actors' = IF asList /\ n \in Range(actors) THEN actors ELSE Append(actors, n)
  /\ scene' = IF renderer # -1 /\ ~(asList /\ n \in Range(actors))
                THEN [scene EXCEPT ![renderer] = AddActor(@, n)]
                ELSE scene
  /\ lastOp' = NotShow
  /\ UNCHANGED <<nrend, offscreen, renderer, interactive, initializedIren, scalarbars,
                 axes, axes_instances, barsShown, axesAttached, nodeVars,
                 showCount, irenInits, startCount, sbCount, axesSerial,
                 bookCount>>

\* --------------------------------------------------------- Plotter.remove

RenderedAtAfterRemove(n) ==
  IF renderer # -1 THEN [renderedAt EXCEPT ![n] = @ \ {renderer}] ELSE renderedAt

Remove(n) ==
  /\ editCount < MaxEdits
  /\ editCount' = editCount + 1
  /\ scene' = IF renderer # -1 THEN [scene EXCEPT ![renderer] = RemoveActor(@, n)]
              ELSE scene
  /\ renderedAt' = RenderedAtAfterRemove(n)
  /\ actors' = RemoveFirst(actors, n)
  /\ lastOp' = NotShow
  /\ UNCHANGED <<nrend, offscreen, renderer, interactive, initializedIren, scalarbars,
                 axes, axes_instances, barsShown, axesAttached, pickable, scalarbar, trail,
                 showCount, irenInits, startCount, sbCount, axesSerial,
                 bookCount>>

\* ------------------------------------- Actor.addScalarBar / addScalarBar3D
\* "book it, it will be created by Plotter.show() later"
Booked(len) == <<"list", len>>

RECURSIVE SumOver(_, _)
SumOver(f, S) == IF S = {} THEN 0
                 ELSE LET x == CHOOSE y \in S : TRUE IN f[x][1] + f[x][2] + SumOver(f, S \ {x})
Bookings == SumOver(bookCount, Node)

AddScalarBar(n) ==
  /\ IsActor(n)
  /\ Bookings < MaxBookings
  /\ scalarbar' = [scalarbar EXCEPT ![n] = Booked(BookedLen2D)]
  /\ bookCount' = [bookCount EXCEPT ![n] = <<@[1] + 1, @[2]>>]
  /\ lastOp' = NotShow
  /\ UNCHANGED <<plotterVars, sceneVars, pickable, renderedAt, trail,
                 showCount, editCount, irenInits, startCount, sbCount, axesSerial>>

AddScalarBar3D(n) ==
  /\ IsActor(n)
  /\ Bookings < MaxBookings
  /\ scalarbar' = [scalarbar EXCEPT ![n] = Booked(BookedLen3D)]
  /\ bookCount' = [bookCount EXCEPT ![n] = <<@[1], @[2] + 1>>]
  /\ lastOp' = NotShow
  /\ UNCHANGED <<plotterVars, sceneVars, pickable, renderedAt, trail,
                 showCount, editCount, irenInits, startCount, sbCount, axesSerial>>

\* ----------------------------------------------------------- Prop.pickable
SetPickable(n, value) ==
  /\ pickable[n] # value
  /\ editCount < MaxEdits
  /\ editCount' = editCount + 1
  /\ pickable' = [pickable EXCEPT ![n] = value]
  /\ lastOp' = NotShow
  /\ UNCHANGED <<plotterVars, sceneVars, renderedAt, scalarbar, trail,
                 showCount, irenInits, startCount, sbCount, axesSerial,
                 bookCount>>

\* ----------------------------------------------------------- Prop.addTrail
\* the trail actor is created on the first request only
TrailAfterAdd(n) == IF trail[n] = None THEN TrailOf(n) ELSE trail[n]

\* "[None] * n"
EmptyTrail(nseg) == [i \in 1 .. nseg |-> <<"None", Origin>>]

\* addTrail(offset, maxlength, n) on a node without a trail
AddTrail(n, offset, maxlength, nseg) ==
  /\ TrailOf(n) # None
  /\ trail[n] = None
  /\ editCount < MaxEdits
  /\ editCount' = editCount + 1
  /\ trail' = [trail EXCEPT ![n] = TrailAfterAdd(n)]
  /\ trailPoints' = [trailPoints EXCEPT ![n] = EmptyTrail(nseg)]
  /\ trailSegmentSize' = [trailSegmentSize EXCEPT ![n] = <<maxlength, nseg>>]
  /\ trailOffset' = [trailOffset EXCEPT ![n] = offset]
  /\ pathLen' = [pathLen EXCEPT ![n] = 0]
  /\ lastOp' = NotShow
  /\ UNCHANGED <<plotterVars, sceneVars, pickable, renderedAt, scalarbar,
                 showCount, irenInits, startCount, sbCount, axesSerial,
                 bookCount>>
  /\ UNCHANGED <<position, moveCount, shadowVars>>

Abs(x) == IF x < 0 THEN -x ELSE x

\* "norm(currentpos - lastpos) < self.trailSegmentSize", the size being
\* maxlength / n
TooClose_Never(currentpos, lastpos, seg) == FALSE

TooClose(currentpos, lastpos, seg) ==
  NormSq(VecSub(currentpos, lastpos)) * seg[2] * seg[2] < seg[1] * seg[1]

\* Prop.updateTrail: trailPoints afterwards
UpdateTrail(pts, pos, offset, seg) ==
  LET currentpos == VecAdd(pos, offset)
      lastpos    == pts[Len(pts)]
  IN IF lastpos[1] = "None" THEN [i \in 1 .. Len(pts) |-> <<"pt", currentpos>>]
     ELSE IF TooClose(currentpos, lastpos[2], seg) THEN pts
     ELSE Tail(Append(pts, <<"pt", currentpos>>))

Tagged(v) == <<"val", v>>
WithCoord(p, axis, v) ==
  IF axis = "x" THEN <<v, p[2], p[3]>>
  ELSE IF axis = "y" THEN <<p[1], v, p[3]>>
  ELSE <<p[1], p[2], v>>

\* Prop.updateShadow: the position it gives the shadow, old being the present one
UpdateShadow(p, sx, sy, sz, old) ==
  IF sx[1] # "None" THEN WithCoord(p, "x", sx[2])
  ELSE IF sy[1] # "None" THEN WithCoord(p, "y", sy[2])
  ELSE IF sz[1] # "None" THEN WithCoord(p, "z", sz[2])
  ELSE old

\* addShadow(x=v), addShadow(y=v) or addShadow(z=v): the shadow is a clone of
\* the node, projected and placed on the plane
AddShadow(n, axis, v) ==
  LET shad == ShadowIds[shadowCount + 1] IN
  /\ n \in ActorNodes
  /\ shadowCount < MaxShadows
  /\ shadowCount' = shadowCount + 1
  /\ shadowX' = IF axis = "x" THEN [shadowX EXCEPT ![n] = Tagged(v)] ELSE shadowX
  /\ shadowY' = IF axis = "y" THEN [shadowY EXCEPT ![n] = Tagged(v)] ELSE shadowY
  /\ shadowZ' = IF axis = "z" THEN [shadowZ EXCEPT ![n] = Tagged(v)] ELSE shadowZ
  /\ shadow' = [shadow EXCEPT ![n] = shad]
  /\ position' = [position EXCEPT ![shad] = WithCoord(Origin, axis, v)]
  /\ shadowPlane' = [shadowPlane EXCEPT ![n] = <<axis, v>>]
  /\ lastOp' = NotShow
  /\ UNCHANGED <<baseButLastOp, trailPoints, trailSegmentSize, trailOffset, pathLen,
                 moveCount>>

\* a position mutation of node n (pos, addPos, x, y, z) to newpos:
\* SetPosition, then "if self.trail: self.updateTrail()" and "if self.shadow:
\* self.updateShadow()"
MoveTo(n, newpos) ==
  /\ moveCount < MaxMoves
  /\ moveCount' = moveCount + 1
  /\ position' = IF shadow[n] = None THEN [position EXCEPT ![n] = newpos]
                 ELSE [position EXCEPT ![n] = newpos,
                                       ![shadow[n]] = UpdateShadow(newpos, shadowX[n],
                                                         shadowY[n], shadowZ[n], @)]
  /\ pathLen' = [pathLen EXCEPT ![n] = @ + Abs(newpos[1] - position[n][1])
                                         + Abs(newpos[2] - position[n][2])
                                         + Abs(newpos[3] - position[n][3])]
  /\ trailPoints' = IF trail[n] # None
                      THEN [trailPoints EXCEPT ![n] =
                              UpdateTrail(@, newpos, trailOffset[n], trailSegmentSize[n])]
                      ELSE trailPoints
  /\ lastOp' = Op("move", NoAt, <<n>>, TRUE)
  /\ UNCHANGED <<baseButLastOp, trailSegmentSize, trailOffset, shadowVars>>

\* Prop.addPos(dx, 0, 0)
AddPos(n, dx) == MoveTo(n, VecAdd(position[n], <<dx, 0, 0>>))

\* Prop.x(v), Prop.y(v), Prop.z(v)
SetCoord(n, axis, v) == MoveTo(n, WithCoord(position[n], axis, v))

\* ============================================================== data sets
\* ---------------------------------------------- Actor.polydata, coordinates
\* GetMatrix() is the identity
IsIdentity(n) == scaling[n] = 1 /\ position[n] = Origin

\* the vertex p as the node's matrix places it
Transformed(n, p) ==
  VecAdd(<<scaling[n] * p[1], scaling[n] * p[2], scaling[n] * p[3]>>, position[n])

\* polydata(transformed): the buffer itself, or a transformed copy of it
polydata(n, transformed) ==
  IF ~transformed \/ IsIdentity(n) THEN points[n]
  ELSE [i \in DOMAIN points[n] |-> Transformed(n, points[n][i])]

coordinates(n, transformed) == polydata(n, transformed)

\* -------------------------------------------------------- Actor.setPoints
MatrixAfterSetPoints_Keep(pos, scl) == <<pos, scl>>

\* "reset actor to identity matrix position/rotation": PokeMatrix of a fresh
\* vtkMatrix4x4 leaves position, scale and matrix those of the identity
MatrixAfterSetPoints(pos, scl) == <<Origin, 1>>

setPoints(n, pts) ==
  LET M == MatrixAfterSetPoints(position[n], scaling[n]) IN
  /\ dataCount < MaxDataOps
  /\ dataCount' = dataCount + 1
  /\ points' = [points EXCEPT ![n] = pts]
  /\ position' = [position EXCEPT ![n] = M[1]]
  /\ scaling' = [scaling EXCEPT ![n] = M[2]]
  /\ lastCall' = Call("setPoints", n, "none", FALSE, "self", pts,
                      Found(meshSerial[n], points[n], position[n], scaling[n]))
  /\ UNCHANGED <<meshSerial, voxels, imageSerial>>
  /\ UNCHANGED <<trailPoints, trailSegmentSize, trailOffset, pathLen, moveCount, shadowVars>>

\* ------------------------------------------------------------ Prop.scale
scale(n, k) ==
  /\ dataCount < MaxDataOps
  /\ dataCount' = dataCount + 1
  /\ scaling' = [scaling EXCEPT ![n] = k]
  /\ lastCall' = Call("scale", n, "none", FALSE, "self", <<k>>,
                      Found(meshSerial[n], points[n], position[n], scaling[n]))
  /\ UNCHANGED <<points, meshSerial, voxels, imageSerial>>

\* ---------------------------------------------------------- Actor.decimate
DecimateSkips_Never(N, Np) == FALSE

\* "fraction = float(N) / Np; if fraction >= 1: return self", for N given
\* (N = 0 stands for None and for 0) and a mesh of Np > 0 points
DecimateSkips(N, Np) == N # 0 /\ N >= Np

\* decimate(N=N); k: the number of vertices the decimation filter leaves
decimate(n, N, k) ==
  LET poly   == polydata(n, TRUE)
      Np     == Len(poly)
      before == Found(meshSerial[n], points[n], position[n], scaling[n])
  IN
  /\ dataCount < MaxDataOps
  /\ dataCount' = dataCount + 1
  /\ k \in 0 .. Np
  /\ UNCHANGED <<scaling, voxels, imageSerial>>
  /\ IF N # 0 /\ Np = 0
       THEN \* float(N) / 0
            /\ lastCall' = Call("decimate", n, "ZeroDivisionError", FALSE, "None", <<N>>, before)
            /\ UNCHANGED <<points, meshSerial>>
     ELSE IF DecimateSkips(N, Np)
       THEN /\ lastCall' = Call("decimate", n, "none", FALSE, "self", <<N>>, before)
            /\ UNCHANGED <<points, meshSerial>>
     ELSE \* updateMesh(decimate.GetOutput())
          /\ points' = [points EXCEPT ![n] = SubSeq(poly, 1, k)]
          /\ meshSerial' = [meshSerial EXCEPT ![n] = @ + 1]
          /\ lastCall' = Call("decimate", n, "none", FALSE, "self", <<N>>, before)

\* --------------------------------------------------------- Volume.threshold
\* the voxels vtkImageThreshold takes as inside; vmin, vmax: <<"None", 0>> or
\* <<"val", v>>
InThreshold(x, vmin, vmax) ==
  IF vmin[1] # "None" /\ vmax[1] # "None" THEN vmin[2] <= x /\ x <= vmax[2]
  ELSE IF vmin[1] # "None" THEN x <= vmin[2]
  ELSE IF vmax[1] # "None" THEN x >= vmax[2]
  ELSE TRUE

ThresholdFails_Never(replaceWith) == FALSE

\* "if replaceWith is None"
ThresholdFails(replaceWith) == replaceWith[1] = "None"

threshold(v, vmin, vmax, replaceWith) ==
  LET before == Found(imageSerial[v], voxels[v], position[v], scaling[v]) IN
  /\ dataCount < MaxDataOps
  /\ dataCount' = dataCount + 1
  /\ UNCHANGED <<points, scaling, meshSerial>>
  /\ IF ThresholdFails(replaceWith)
       THEN \* printc("Error in threshold(); you must provide replaceWith"), raise
            /\ lastCall' = Call("threshold", v, "RuntimeError", TRUE, "None",
                                <<vmin, vmax, replaceWith>>, before)
            /\ UNCHANGED <<voxels, imageSerial>>
     ELSE \* self._updateVolume(th.GetOutput())
          /\ voxels' = [voxels EXCEPT ![v] =
                          [i \in DOMAIN @ |-> IF InThreshold(@[i], vmin, vmax)
                                               THEN replaceWith[2] ELSE @[i]]]
          /\ imageSerial' = [imageSerial EXCEPT ![v] = @ + 1]
          /\ lastCall' = Call("threshold", v, "none", FALSE, "self",
                              <<vmin, vmax, replaceWith>>, before)

\* ------------------------------------------------------ Actor.closestPoint
LocatorDue_Always(loc) == TRUE

\* "if not plocexists or (plocexists and self.point_locator is None)": the
\* locator is to be built
LocatorDue(loc) == loc = NoLocator

\* closestPoint(pt, N=N, radius=radius), radius 0 standing for None; ret is
\* the locator that answers the query
closestPoint(n, N, radius) ==
  LET byPoints == N > 1 \/ radius # 0
      old      == IF byPoints THEN point_locator[n] ELSE cell_locator[n]
      build    == LocatorDue(old)
      used     == IF build THEN <<locSerial + 1, meshSerial[n]>> ELSE old
  IN
  /\ locCalls < MaxQueries
  /\ locCalls' = locCalls + 1
  /\ locSerial' = IF build THEN locSerial + 1 ELSE locSerial
  /\ point_locator' = IF byPoints THEN [point_locator EXCEPT ![n] = used] ELSE point_locator
  /\ cell_locator' = IF byPoints THEN cell_locator ELSE [cell_locator EXCEPT ![n] = used]
  /\ lastCall' = Call("closestPoint", n, "none", FALSE, used, <<N, radius>>,
                      Found(meshSerial[n], points[n], position[n], scaling[n]))
  /\ UNCHANGED <<points, scaling, meshSerial, voxels, imageSerial, dataCount>>

\* ------------------------------------------- Volume.xSlice, ySlice, zSlice
\* imagedata().GetDimensions(): the voxels lie along the x axis
Dimensions(v) == <<Len(voxels[v]), 1, 1>>

\* "if i>nx-1: i=nx-1": the index given to SetExtent, for an axis of n voxels
SliceIndex(i, n) == IF i > n - 1 THEN n - 1 ELSE i

\* xSlice(i), ySlice(i), zSlice(i) for axis 1, 2, 3: the slice is a new Actor;
\* ret records it with the axis and the index of its extent
Slice(v, axis, i) ==
  /\ dataCount < MaxDataOps
  /\ dataCount' = dataCount + 1
  /\ lastCall' = Call("slice", v, "none", FALSE,
                      <<"Actor", axis, SliceIndex(i, Dimensions(v)[axis])>>, <<i>>,
                      Found(imageSerial[v], voxels[v], position[v], scaling[v]))
  /\ UNCHANGED <<points, scaling, meshSerial, voxels, imageSerial>>

\* ------------------------------------------------- analysis.thinPlateSpline
\* "ns = len(sourcePts)" and "nt = len(sourcePts)"
SourceCount(sourcePts, targetPts) == Len(sourcePts)
TargetCount(sourcePts, targetPts) == Len(sourcePts)

\* thinPlateSpline(actor, sourcePts, targetPts): the warped copy is a new
\* Actor; arg records the two lists, ret the landmark pairs used
thinPlateSpline(n, sourcePts, targetPts) ==
  LET ns == SourceCount(sourcePts, targetPts)
      nt == TargetCount(sourcePts, targetPts)
      before == Found(meshSerial[n], points[n], position[n], scaling[n])
  IN
  /\ dataCount < MaxDataOps
  /\ dataCount' = dataCount + 1
  /\ UNCHANGED <<points, scaling, meshSerial, voxels, imageSerial>>
  /\ lastCall' =
       IF ns # nt
         THEN \* printc("thinPlateSpline Error: #source != #target points"), raise
              Call("thinPlateSpline", n, "RuntimeError", TRUE, "None",
                   <<sourcePts, targetPts>>, before)
       ELSE IF \E i \in 1 .. ns : i > Len(targetPts)
         THEN \* targetPts[i] past the end of the list
              Call("thinPlateSpline", n, "IndexError", FALSE, "None",
                   <<sourcePts, targetPts>>, before)
       ELSE Call("thinPlateSpline", n, "none", FALSE, "warp",
                 <<sourcePts, targetPts>>, before)

\* ================================================= the Plotter specification
Shown     == {"a1"} \cup VolumeNodes
ShowLists == UNION {{s \in [1 .. k -> Shown] : \A i, j \in 1 .. k : i # j => s[i] # s[j]} :
                    k \in 0 .. MaxListLen}
AtValues  == {NoAt} \cup Renderers

Init ==
  /\ \E n \in 1 .. MaxRenderers, offscr \in BOOLEAN : PlotterInit(n, offscr, 4)
  /\ PropInit
  /\ HistInit
  /\ FreeIdle
  /\ KeysInit
  /\ TrailInit
  /\ CamInit
  /\ DataInit
  /\ PickInit
  /\ ArrayInit
  /\ LocInit
  /\ WinInit

ShowCall    == /\ \E given \in BOOLEAN, acts \in ShowLists, at \in AtValues :
                    (given \/ acts = <<>>) /\ Show(given, acts, at, "None")
               /\ UNCHANGED extVars
AddCall     == (\E n \in Shown, asList \in BOOLEAN : Add(n, asList)) /\ UNCHANGED extVars
RemoveCall  == (\E n \in Shown : Remove(n)) /\ UNCHANGED extVars
BookCall    == (\E n \in ActorNodes : AddScalarBar(n)) /\ UNCHANGED extVars
Book3DCall  == (\E n \in ActorNodes : AddScalarBar3D(n)) /\ UNCHANGED extVars
PickableCall == (\E n \in Shown, b \in BOOLEAN : SetPickable(n, b)) /\ UNCHANGED extVars
TrailCall   == /\ \E n \in Shown : AddTrail(n, Origin, MaxTrailLen, MaxTrailN)
               /\ UNCHANGED <<freeVars, keyVars, camVars, dataVars, restVars>>

Next == ShowCall \/ AddCall \/ RemoveCall \/ PickableCall \/ TrailCall

Spec == Init /\ [][Next]_vars

\* ============================================ scalar-bar booking and show()
BarLists    == {<<>>, <<"a1">>, <<"a2">>, <<"a1", "a2">>}
ShowBooked  == /\ \E acts \in BarLists, at \in AtValues : Show(TRUE, acts, at, "None")
               /\ UNCHANGED extVars
ReShow      == (\E at \in AtValues : Show(FALSE, <<>>, at, "None")) /\ UNCHANGED extVars

NextBars == ShowBooked \/ ReShow \/ BookCall \/ Book3DCall

SpecBars == Init /\ [][NextBars]_vars

\* ================================================ the free function show()
ScreenX == 2160       \* the default screen size
ScreenY == 1440
GridMinInit == 1000   \* the initial value of minl

Isqrt(n) == CHOOSE k \in 0 .. n : k * k <= n /\ n < (k + 1) * (k + 1)

\* the nine candidate arrangements around (nx, ny)
GridCandidates(nx, ny) ==
  << <<nx, ny>>, <<nx, ny + 1>>, <<nx - 1, ny>>, <<nx + 1, ny>>, <<nx, ny - 1>>,
     <<nx - 1, ny + 1>>, <<nx + 1, ny - 1>>, <<nx + 1, ny + 1>>, <<nx - 1, ny - 1>> >>

\* "for i, m in enumerate(lm)": the first candidate of least capacity l, N <= l < minl
RECURSIVE GridPick(_, _, _, _, _)
GridPick(lm, i, ind, minl, N) ==
  IF i > Len(lm) THEN ind
  ELSE LET l == lm[i][1] * lm[i][2]
       IN IF N <= l /\ l < minl THEN GridPick(lm, i + 1, i, l, N)
          ELSE GridPick(lm, i + 1, ind, minl, N)

\* the shape Plotter(N=N) settles on, on a screen of x by y pixels
GridShape(N, x, y) ==
  LET nx == Isqrt(((N * y) \div x) + 1)
      ny == Isqrt(((N * x) \div y) + 1)
      lm == GridCandidates(nx, ny)
  IN lm[GridPick(lm, 1, 1, GridMinInit, N)]

\* the list lm of Plotter(N=N)
GridList(N, x, y) ==
  GridCandidates(Isqrt(((N * y) \div x) + 1), Isqrt(((N * x) \div y) + 1))

\* Plotter(N=N) on a screen of x by y pixels, as far as the shape: ret is the
\* shape, arg the count and the screen
PlotterGrid(N, x, y) ==
  /\ dataCount = 0
  /\ dataCount' = dataCount + 1
  /\ lastCall' = Call("Plotter", None, "none", FALSE, GridShape(N, x, y), <<N, x, y>>,
                      NoBuffer)
  /\ UNCHANGED <<points, scaling, meshSerial, voxels, imageSerial>>

\* "if len(at) > 1 and (shape == (1, 1) and N == None): N = max(at) + 1"
FreeN(at) ==
  IF Len(at) > 1 THEN (CHOOSE m \in Range(at) : \A x \in Range(at) : x <= m) + 1 ELSE 0

\* len(vp.renderers) of the Plotter the free function constructs
FreeRenderers(at) ==
  IF FreeN(at) = 0 THEN 1
  ELSE LET shape == GridShape(FreeN(at), ScreenX, ScreenY) IN shape[1] * shape[2]

FreeGroups == {<<"a1">>, <<"a2">>, <<"v1">>, <<"a1", "v1">>}
InterOptions == {"None", "True", "False"}

\* show(groups, at=at, interactive=inter, offscreen=offscr) has checked its
\* arguments and constructed its Plotter
InitFree ==
  /\ \E k \in 1 .. MaxListLen, offscr \in BOOLEAN :
       /\ freeGroups \in [1 .. k -> FreeGroups]
       /\ freeAt \in [1 .. k -> Renderers]
       /\ freeInter \in InterOptions
       /\ PlotterInitWith(FreeRenderers(freeAt), offscr, 4,
                          PlotterInteractive(freeInter, FreeN(freeAt), offscr))
  /\ freePc = "loop"
  /\ freeK = 1
  /\ showLog = <<>>
  /\ PropInit
  /\ HistInit
  /\ KeysInit
  /\ TrailInit
  /\ CamInit
  /\ DataInit
  /\ PickInit
  /\ ArrayInit
  /\ LocInit
  /\ WinInit

\* one pass of "for i, a in enumerate(actors): vp.show(a, at=i, ...)"
FreeShowStep ==
  /\ freePc = "loop"
  /\ Show(TRUE, freeGroups[freeK], freeK - 1, freeInter)
  /\ showLog' = Append(showLog, [acts |-> freeGroups[freeK], at |-> lastOp'.at,
                                  ok |-> lastOp'.ok, started |-> startCount'])
  /\ freeK' = freeK + 1
  /\ freePc' = IF freeK = Len(freeGroups) THEN "start" ELSE "loop"
  /\ UNCHANGED <<freeGroups, freeAt, freeInter, keyVars, trailVars, camVars, dataVars, restVars>>

\* "vp.interactor.Start()" after the loop; the interactor of an off-screen
\* Plotter is None
FreeShowStart ==
  /\ freePc = "start"
  /\ freePc' = IF offscreen THEN "raised" ELSE "returned"
  /\ startCount' = IF offscreen THEN startCount ELSE startCount + 1
  /\ lastOp' = NotShow
  /\ UNCHANGED <<plotterVars, sceneVars, nodeVars, showCount, editCount, irenInits,
                 sbCount, axesSerial, bookCount>>
  /\ UNCHANGED <<freeGroups, freeAt, freeInter, freeK, showLog, keyVars, trailVars,
                 camVars, dataVars, restVars>>

NextFree == FreeShowStep \/ FreeShowStart

SpecFree == InitFree /\ [][NextFree]_vars

\* ====================================== mouse and keyboard callbacks, alpha
OpOne   == OpScale                  \* opacity 1.0
OpFloor == OpScale \div 100         \* opacity 0.01
OpM     == (2 * OpScale) \div 100   \* opacity 0.02

Max2(a, b) == IF a >= b THEN a ELSE b
Min2(a, b) == IF a <= b THEN a ELSE b

OpacityDown_NoFloor(op) == (op * 3) \div 4

\* "," : max([ap.GetOpacity() * 0.75, 0.01])
OpacityDown(op) == Max2((op * 3) \div 4, OpFloor)

\* "." : min([ap.GetOpacity() * 1.25, 1.0])
OpacityUp(op) == Min2((op * 5) \div 4, OpOne)

\* the actors a key acts on: the clicked actor if it is among getActors(),
\* otherwise all of getActors() (the pickable actors of the current renderer)
KeyTargets ==
  LET acs == getActors(scene, renderer)
  IN IF clickedActor \in Range(acs) THEN <<clickedActor>> ELSE acs

\* the window is open and its interactor delivers events
Interacting == ~offscreen /\ renderer # -1 /\ interactor = "set"

ModifierKeys == {"Shift_L", "Control_L", "Super_L", "Alt_L",
                 "Shift_R", "Control_R", "Super_R", "Alt_R"}

\* "now intercept custom observer": a key that is not a lone modifier goes to
\* keyPressFunction, if set, and the handler returns
Intercepted(key) == keyPressFunction /\ key \notin ModifierKeys

\* the trace a key event leaves: acted, a built-in shortcut has acted on the
\* key; reached, the handler got as far as the interception
KeyTrace(key, acted, reached) ==
  /\ keyLog' = [key |-> key, registered |-> keyPressFunction, builtin |-> acted,
                handed |-> reached /\ Intercepted(key)]
  /\ verbose' = IF reached /\ Intercepted(key) THEN FALSE ELSE verbose
  /\ UNCHANGED keyPressFunction

\* _mouseleft: r is the poked renderer, p the picked prop or None
Click(r, p) ==
  /\ Interacting
  /\ r < nrend
  /\ p = None \/ (p \in Range(scene[r]) /\ pickable[p])
  /\ renderer' = r
  /\ clickedActor' = IF p # None /\ IsActor(p) /\ pickable[p] THEN p ELSE clickedActor
  /\ justremoved' = None
  /\ UNCHANGED xLog
  /\ lastOp' = NotShow
  /\ UNCHANGED <<nrend, offscreen, actors, interactive, initializedIren, scalarbars, axes,
                 axes_instances, sceneVars, nodeVars, showCount, editCount, irenInits,
                 startCount, sbCount, axesSerial, bookCount>>
  /\ UNCHANGED <<opacity, backface, bfprop, keyCount, bfSerial, handlerVars>>

\* "m" and ",": lower the opacity of the targets to newOpacity[n] and stash
\* their back-face property
KeyLower(key, newOpacity) ==
  LET T == Range(KeyTargets)
      stashed == {n \in T : backface[n] # 0}
  IN
  /\ Interacting
  /\ keyCount < MaxKeys
  /\ keyCount' = keyCount + 1
  /\ opacity' = [n \in Node |-> IF n \in T THEN newOpacity[n] ELSE opacity[n]]
  /\ bfprop' = [n \in Node |-> IF n \in stashed THEN backface[n] ELSE bfprop[n]]
  /\ backface' = [n \in Node |-> IF n \in stashed THEN 0 ELSE backface[n]]
  /\ lastOp' = Op(key, renderer, KeyTargets, TRUE)
  /\ KeyTrace(key, TRUE, TRUE)
  /\ UNCHANGED <<baseButLastOp, clickedActor, bfSerial>>

KeyM     == KeyLower("m", [n \in Node |-> OpM])
KeyComma == KeyLower("comma", [n \in Node |-> OpacityDown(opacity[n])])

\* ".": raise the opacity of the targets; at 1.0 the stashed back-face
\* property is put back
KeyPeriod ==
  LET T == Range(KeyTargets)
      back == {n \in T : OpacityUp(opacity[n]) = OpOne /\ bfprop[n] # 0}
  IN
  /\ Interacting
  /\ keyCount < MaxKeys
  /\ keyCount' = keyCount + 1
  /\ opacity' = [n \in Node |-> IF n \in T THEN OpacityUp(opacity[n]) ELSE opacity[n]]
  /\ backface' = [n \in Node |-> IF n \in back THEN bfprop[n] ELSE backface[n]]
  /\ lastOp' = Op("period", renderer, KeyTargets, TRUE)
  /\ KeyTrace("period", TRUE, TRUE)
  /\ UNCHANGED <<baseButLastOp, bfprop, clickedActor, bfSerial>>

\* "/" without a clicked actor: the loop stops at the first actor with a
\* stashed property, where "a.clickedActor" raises AttributeError; the result
\* is the number of actors whose opacity has been set by then
SlashLoopReach(acs) ==
  IF \E i \in DOMAIN acs : bfprop[acs[i]] # 0
    THEN CHOOSE i \in DOMAIN acs :
           bfprop[acs[i]] # 0 /\ \A j \in 1 .. (i - 1) : bfprop[acs[j]] = 0
    ELSE Len(acs)

\* "/": opacity 1 and the stashed back-face property put back
KeySlash ==
  LET acs == getActors(scene, renderer)
      clicked == clickedActor \in Range(acs)
      reach == SlashLoopReach(acs)
      raised == ~clicked /\ \E i \in DOMAIN acs : bfprop[acs[i]] # 0
      done == IF clicked THEN {clickedActor} ELSE {acs[i] : i \in 1 .. reach}
  IN
  /\ Interacting
  /\ keyCount < MaxKeys
  /\ keyCount' = keyCount + 1
  /\ opacity' = [n \in Node |-> IF n \in done THEN OpOne ELSE opacity[n]]
  /\ backface' = [n \in Node |-> IF clicked /\ n = clickedActor /\ bfprop[n] # 0
                                   THEN bfprop[n] ELSE backface[n]]
  /\ lastOp' = Op("slash", renderer, KeyTargets, ~raised)
  /\ KeyTrace("slash", TRUE, ~raised)
  /\ UNCHANGED <<baseButLastOp, bfprop, clickedActor, bfSerial>>

\* Actor.alpha(op)
Alpha(n, op) ==
  /\ IsActor(n)
  /\ editCount < MaxEdits
  /\ editCount' = editCount + 1
  /\ opacity' = [opacity EXCEPT ![n] = op]
  /\ bfprop' = IF backface[n] # 0 /\ op < OpOne THEN [bfprop EXCEPT ![n] = backface[n]]
               ELSE bfprop
  /\ backface' = IF backface[n] = 0 THEN backface
                 ELSE IF op < OpOne THEN [backface EXCEPT ![n] = 0]
                 ELSE [backface EXCEPT ![n] = bfprop[n]]
  /\ lastOp' = NotShow
  /\ UNCHANGED <<plotterVars, sceneVars, nodeVars, showCount, irenInits,
                 startCount, sbCount, axesSerial, bookCount>>
  /\ UNCHANGED <<clickedActor, keyCount, bfSerial, handlerVars>>

\* Actor.backColor(bc): only active for alpha=1; reuses the back-face
\* property of the actor or creates one
BackColor(n) ==
  LET active == opacity[n] >= OpOne
      fresh == active /\ backface[n] = 0
  IN
  /\ IsActor(n)
  /\ editCount < MaxEdits
  /\ editCount' = editCount + 1
  /\ bfSerial' = IF fresh THEN bfSerial + 1 ELSE bfSerial
  /\ backface' = IF fresh THEN [backface EXCEPT ![n] = bfSerial + 1] ELSE backface
  /\ lastOp' = NotShow
  /\ UNCHANGED <<plotterVars, sceneVars, nodeVars, showCount, irenInits,
                 startCount, sbCount, axesSerial, bookCount>>
  /\ UNCHANGED <<opacity, bfprop, clickedActor, keyCount, handlerVars>>

AxesAfterDetach_Keep(attached, inst) == attached

\* "if self.axes_instances[clickedr]": EnabledOff() for a widget, RemoveActor
\* otherwise
AxesAfterDetach(attached, inst) == attached \ {inst}

\* a keypad key: change the axes style of the current renderer, unless the
\* key has gone to keyPressFunction
KeypadAxes(style) ==
  LET clickedr == renderer
      old      == axes_instances[clickedr]
      acts     == ~Intercepted("KP")
      build    == acts /\ AxesToBuild(0, style)
      built    == IF build THEN axesSerial + 1 ELSE 0
  IN
  /\ Interacting
  /\ keyCount < MaxKeys
  /\ keyCount' = keyCount + 1
  /\ axes' = IF acts THEN style ELSE axes
  /\ axes_instances' = IF acts THEN [axes_instances EXCEPT ![clickedr] = built]
                       ELSE axes_instances
  /\ axesAttached' = IF acts
                       THEN [axesAttached EXCEPT ![clickedr] =
                               AxesAfterDetach(@, old) \cup (IF build THEN {built} ELSE {})]
                       ELSE axesAttached
  /\ axesSerial' = IF build THEN axesSerial + 1 ELSE axesSerial
  /\ lastOp' = Op("keypad", clickedr, <<>>, TRUE)
  /\ KeyTrace("KP", acts, TRUE)
  /\ UNCHANGED <<nrend, offscreen, actors, renderer, interactive, initializedIren,
                 scalarbars, scene, barsShown, nodeVars, showCount, editCount, irenInits,
                 startCount, sbCount, bookCount>>
  /\ UNCHANGED <<opacity, backface, bfprop, clickedActor, bfSerial>>

\* a key without a shortcut ahead of the interception and without an effect
\* on the scene: a lone modifier, or "h" (the tips)
KeyPlain(key) ==
  /\ Interacting
  /\ keyCount < MaxKeys
  /\ keyCount' = keyCount + 1
  /\ KeyTrace(key, key = "h" /\ ~Intercepted(key), TRUE)
  /\ lastOp' = Op(key, renderer, <<>>, TRUE)
  /\ UNCHANGED <<baseButLastOp, opacity, backface, bfprop, clickedActor, bfSerial>>

\* "x": remove the clicked actor from the current renderer, or put back the
\* one just removed
KeyX ==
  LET free   == ~Intercepted("x")
      hide   == free /\ justremoved = None
                     /\ clickedActor \in Range(getActors(scene, renderer))
      back   == free /\ justremoved # None
  IN
  /\ Interacting
  /\ keyCount < MaxKeys
  /\ keyCount' = keyCount + 1
  /\ scene' = IF hide THEN [scene EXCEPT ![renderer] = RemoveActor(@, clickedActor)]
              ELSE IF back THEN [scene EXCEPT ![renderer] = AddActor(@, justremoved)]
              ELSE scene
  /\ justremoved' = IF hide THEN clickedActor ELSE IF back THEN None ELSE justremoved
  /\ xLog' = [gone |-> IF hide THEN clickedActor ELSE None,
              at |-> IF hide THEN renderer ELSE NoAt,
              prev |-> xLog.gone, prevAt |-> xLog.at]
  /\ KeyTrace("x", free, TRUE)
  /\ lastOp' = Op("x", renderer, <<>>, TRUE)
  /\ UNCHANGED <<plotterVars, barsShown, axesAttached, nodeVars, showCount, editCount,
                 irenInits, startCount, sbCount, axesSerial, bookCount>>
  /\ UNCHANGED <<opacity, backface, bfprop, clickedActor, bfSerial>>

\* the name the loop "for i in range(GetNumberOfArrays())" leaves active: each
\* array whose name is not "Normals" is made active in turn
RECURSIVE ActiveAfterLoop(_, _)
ActiveAfterLoop(names, active) ==
  IF names = <<>> THEN active
  ELSE ActiveAfterLoop(Tail(names), IF Head(names) = "Normals" THEN active ELSE Head(names))

\* "k" (point data) and "K" (cell data), on the actors of the current renderer
KeyK(key) ==
  LET free == ~Intercepted(key)
      T    == IF free THEN Range(getActors(scene, renderer)) ELSE {}
  IN
  /\ Interacting
  /\ keyCount < MaxKeys
  /\ keyCount' = keyCount + 1
  /\ activePoint' = [n \in Node |-> IF n \in T /\ key = "k"
                                      THEN ActiveAfterLoop(PointArrays(n), activePoint[n])
                                    ELSE activePoint[n]]
  /\ activeCell' = [n \in Node |-> IF n \in T /\ key = "K"
                                     THEN ActiveAfterLoop(CellArrays(n), activeCell[n])
                                   ELSE activeCell[n]]
  /\ scalarVisibility' = [n \in Node |-> (n \in T) \/ scalarVisibility[n]]
  /\ UNCHANGED scals_idx
  /\ KeyTrace(key, free, TRUE)
  /\ lastOp' = Op(key, renderer, IF free THEN getActors(scene, renderer) ELSE <<>>, TRUE)
  /\ UNCHANGED <<baseButLastOp, opacity, backface, bfprop, clickedActor, bfSerial>>

\* Actor.scalars(): the list of [type, name] of the arrays
ScalarsList(n) ==
  [i \in 1 .. Len(PointArrays(n)) |-> <<"PointData", PointArrays(n)[i]>>]
    \o [i \in 1 .. Len(CellArrays(n)) |-> <<"CellData", CellArrays(n)[i]>>]

\* str.lower() on the array names
Lower(name) ==
  IF name = "Normals" THEN "normals"
  ELSE IF name = "A" THEN "a"
  ELSE IF name = "B" THEN "b"
  ELSE IF name = "C" THEN "c"
  ELSE IF name = "D" THEN "d"
  ELSE name

\* the strings that contain "Normals"
ContainsNormals(str) == str \in {"Normals"}

\* "if sname and 'Normals' not in sname.lower()": the array is taken
TakenBy4(sname) == sname # "" /\ ~ContainsNormals(Lower(sname))

\* ia.scalars(idx) with the default datatype "point": the active point scalars
\* after the call, idx counting from 0
ScalarsByIndex(n, idx, active) ==
  IF idx < Len(PointArrays(n)) THEN PointArrays(n)[idx + 1] ELSE active

\* "4", on the pickable Actors of the current renderer
Key4 ==
  LET free == ~Intercepted("4")
      T    == IF free
                THEN {n \in Range(getActors(scene, renderer)) : ScalarsList(n) # <<>>}
              ELSE {}
      Taken(n) == n \in T /\ TakenBy4(ScalarsList(n)[scals_idx[n] + 1][2])
  IN
  /\ Interacting
  /\ keyCount < MaxKeys
  /\ keyCount' = keyCount + 1
  /\ activePoint' = [n \in Node |-> IF Taken(n)
                                      THEN ScalarsByIndex(n, scals_idx[n], activePoint[n])
                                    ELSE activePoint[n]]
  /\ scalarVisibility' = [n \in Node |-> Taken(n) \/ scalarVisibility[n]]
  /\ scals_idx' = [n \in Node |-> IF n \in T
                                    THEN (IF scals_idx[n] + 1 >= Len(ScalarsList(n)) THEN 0
                                          ELSE scals_idx[n] + 1)
                                  ELSE scals_idx[n]]
  /\ UNCHANGED activeCell
  /\ KeyTrace("4", free, TRUE)
  /\ lastOp' = Op("4", renderer, IF free THEN getActors(scene, renderer) ELSE <<>>, TRUE)
  /\ UNCHANGED <<baseButLastOp, opacity, backface, bfprop, clickedActor, bfSerial>>

\* "q", "Q", "space", "Return": iren.ExitCallback() and return
KeyQuit ==
  /\ Interacting
  /\ keyCount < MaxKeys
  /\ keyCount' = keyCount + 1
  /\ KeyTrace("q", TRUE, FALSE)
  /\ lastOp' = Op("q", renderer, <<>>, TRUE)
  /\ UNCHANGED <<baseButLastOp, opacity, backface, bfprop, clickedActor, bfSerial>>

\* the caller sets vp.keyPressFunction
RegisterHandler ==
  /\ ~keyPressFunction
  /\ keyPressFunction' = TRUE
  /\ lastOp' = NotShow
  /\ UNCHANGED <<baseButLastOp, opacity, backface, bfprop, clickedActor, keyCount,
                 bfSerial, verbose, keyLog>>

KeyLists    == {<<"a1">>, <<"a1", "a2">>, <<"a2", "a1">>}
AlphaInputs == {0, OpOne}

OpenWindow   == /\ showCount = 0
                /\ \E acts \in KeyLists, at \in Renderers : Show(TRUE, acts, at, "None")
                /\ UNCHANGED extVars
ClickEvent   == (\E r \in Renderers, p \in ActorNodes \cup {None} : Click(r, p))
                /\ UNCHANGED <<freeVars, trailVars, camVars, dataVars, restButPick>>
KeyMEvent    == KeyM /\ UNCHANGED <<freeVars, trailVars, camVars, dataVars, restVars>>
KeyCommaEvent  == KeyComma /\ UNCHANGED <<freeVars, trailVars, camVars, dataVars, restVars>>
KeyPeriodEvent == KeyPeriod /\ UNCHANGED <<freeVars, trailVars, camVars, dataVars, restVars>>
KeySlashEvent  == KeySlash /\ UNCHANGED <<freeVars, trailVars, camVars, dataVars, restVars>>
AlphaCall    == (\E n \in ActorNodes, op \in AlphaInputs : Alpha(n, op)) /\ UNCHANGED <<freeVars, trailVars, camVars, dataVars, restVars>>
BackColorCall == (\E n \in ActorNodes : BackColor(n)) /\ UNCHANGED <<freeVars, trailVars, camVars, dataVars, restVars>>

NextKeys == \/ OpenWindow \/ ClickEvent \/ KeyMEvent \/ KeyCommaEvent \/ KeyPeriodEvent
            \/ KeySlashEvent \/ AlphaCall \/ BackColorCall

SpecKeys == Init /\ [][NextKeys]_vars

\* ================================================== axes and the keypad keys
AxesStyles == 0 .. 9
AxesLists  == {<<>>, <<"a1">>}

ShowAxes    == /\ \E acts \in AxesLists, at \in Renderers : Show(TRUE, acts, at, "None")
               /\ UNCHANGED extVars
PokeEvent   == (\E r \in Renderers : Click(r, None)) /\ UNCHANGED <<freeVars, trailVars, camVars, dataVars, restButPick>>
KeypadEvent == (\E style \in AxesStyles : KeypadAxes(style)) /\ UNCHANGED <<freeVars, trailVars, camVars, dataVars, restVars>>

NextAxes == ShowAxes \/ PokeEvent \/ KeypadEvent

SpecAxes == Init /\ [][NextAxes]_vars

\* ======================================================= trails of a moving actor
TrailLengths == 2 .. MaxTrailLen
TrailSegments == 2 .. MaxTrailN
TrailOffsets == {Origin, <<1, 0, 0>>}
Steps == 1 .. MaxStep

AddTrailCall == /\ \E off \in TrailOffsets, M \in TrailLengths, N \in TrailSegments :
                     AddTrail("a1", off, M, N)
                /\ UNCHANGED <<freeVars, keyVars, camVars, dataVars, restVars>>
AddPosCall   == (\E dx \in Steps : AddPos("a1", dx)) /\ UNCHANGED <<freeVars, keyVars, camVars, dataVars, restVars>>

NextTrail == AddTrailCall \/ AddPosCall

SpecTrail == Init /\ [][NextTrail]_vars

\* ======================================================= shadows of a moving actor
Axes3       == {"x", "y", "z"}
PlaneValues == {-1, 0}
CoordValues == {1}

AddShadowCall == /\ \E axis \in Axes3, v \in PlaneValues : AddShadow("a1", axis, v)
                 /\ UNCHANGED <<freeVars, keyVars, camVars, dataVars, restVars>>
SetCoordCall  == /\ \E axis \in Axes3, v \in CoordValues : SetCoord("a1", axis, v)
                 /\ UNCHANGED <<freeVars, keyVars, camVars, dataVars, restVars>>
ShiftCall     == AddPos("a1", 1) /\ UNCHANGED <<freeVars, keyVars, camVars, dataVars, restVars>>

NextShadow == AddShadowCall \/ SetCoordCall \/ ShiftCall

SpecShadow == Init /\ [][NextShadow]_vars

\* ================================================== show() and the camera
\* show(at=at) gets past its two early returns
ReachesRendering(at) ==
  /\ ~(at = NoAt /\ nrend > 1 /\ ~offscreen)
  /\ (IF at = NoAt THEN 0 ELSE at) < nrend

ViewupDue_Always(first, viewup) == viewup # ""

\* "if self._first_viewup and len(viewup)"
ViewupDue(first, viewup) == first /\ viewup # ""

ViewAxes == {"x", "y", "z"}

\* the `viewup` option of a show() call
ShowViewup(reached, viewup) ==
  LET due == reached /\ ViewupDue(first_viewup, viewup)
      set == due /\ viewup \in ViewAxes
  IN
  /\ first_viewup' = IF due THEN FALSE ELSE first_viewup
  /\ viewUp' = IF set THEN viewup ELSE viewUp
  /\ viewupCount' = IF set THEN viewupCount + 1 ELSE viewupCount
  /\ viewupShow' = IF set THEN showCount + 1 ELSE viewupShow
  /\ viewupAsked' = IF reached /\ viewup # "" THEN Append(viewupAsked, viewup)
                    ELSE viewupAsked

Viewups  == {"", "x", "z", "up"}
CamLists == {<<"a1">>}

ShowCam == /\ \E acts \in CamLists, at \in AtValues, viewup \in Viewups :
                /\ Show(TRUE, acts, at, "None")
                /\ ShowViewup(ReachesRendering(at), viewup)
           /\ UNCHANGED <<freeVars, keyVars, trailVars, dataVars, restVars>>

NextCam == ShowCam

SpecCam == Init /\ [][NextCam]_vars

\* ============================================ show() of unrecognized objects
UnknownObjects == {"u1"}           \* objects of a type show() does not know
ScanInputs == Shown \cup UnknownObjects
ScanLists  == UNION {[1 .. k -> ScanInputs] : k \in 0 .. MaxListLen}

ShowScanned == /\ \E acts \in ScanLists, at \in AtValues : Show(TRUE, acts, at, "None")
               /\ UNCHANGED extVars
ShowAgain   == (\E at \in AtValues : Show(FALSE, <<>>, at, "None")) /\ UNCHANGED extVars

NextScan == ShowScanned \/ ShowAgain

SpecScan == Init /\ [][NextScan]_vars

\* =================================================== operations on data sets
NewCoords       == {<<<<2, 0, 0>>>>, <<<<0, 0, 0>>, <<0, 0, 1>>>>, InitialPoints}
ScaleFactors    == {1, 2}
MeshPositions   == {Origin, <<1, 0, 0>>}
DecimateTargets == 0 .. (2 * Len(InitialPoints))
OptionalScalars == {<<"None", 0>>, <<"val", 0>>, <<"val", 2>>}
OptionalLimits  == {<<"None", 0>>, <<"val", 1>>}
Landmarks       == {<<>>, <<Origin>>, <<Origin, <<1, 0, 0>>>>}

SetPointsCall == /\ \E pts \in NewCoords : setPoints("a1", pts)
                 /\ UNCHANGED <<baseVars, freeVars, keyVars, camVars, restVars>>
ScaleCall     == /\ \E k \in ScaleFactors : scale("a1", k)
                 /\ UNCHANGED <<baseVars, freeVars, keyVars, camVars, trailVars, restVars>>
PosCall       == /\ \E p \in MeshPositions :
                      /\ MoveTo("a1", p)
                      /\ lastCall' = Call("pos", "a1", "none", FALSE, "self", <<p>>, NoBuffer)
                 /\ dataCount < MaxDataOps
                 /\ dataCount' = dataCount + 1
                 /\ UNCHANGED <<points, scaling, meshSerial, voxels, imageSerial>>
                 /\ UNCHANGED <<freeVars, keyVars, camVars, restVars>>
DecimateCall  == /\ \E N \in DecimateTargets, k \in 0 .. Len(InitialPoints) :
                      decimate("a1", N, k)
                 /\ UNCHANGED <<baseVars, freeVars, keyVars, camVars, trailVars, restVars>>
ThresholdCall == /\ \E vmin \in OptionalLimits, vmax \in OptionalLimits,
                       replaceWith \in OptionalScalars :
                      threshold("v1", vmin, vmax, replaceWith)
                 /\ UNCHANGED <<baseVars, freeVars, keyVars, camVars, trailVars, restVars>>
ThinPlateCall == /\ \E sourcePts \in Landmarks, targetPts \in Landmarks :
                      thinPlateSpline("a1", sourcePts, targetPts)
                 /\ UNCHANGED <<baseVars, freeVars, keyVars, camVars, trailVars, restVars>>

NextMesh == \/ SetPointsCall \/ ScaleCall \/ PosCall \/ DecimateCall \/ ThresholdCall
            \/ ThinPlateCall

SpecMesh == Init /\ [][NextMesh]_vars

\* ======================================================= slices of a Volume
SliceIndexes == -2 .. 3

XSliceCall == /\ \E i \in SliceIndexes : Slice("v1", 1, i)
              /\ UNCHANGED <<baseVars, freeVars, keyVars, camVars, trailVars, restVars>>
YSliceCall == /\ \E i \in SliceIndexes : Slice("v1", 2, i)
              /\ UNCHANGED <<baseVars, freeVars, keyVars, camVars, trailVars, restVars>>
ZSliceCall == /\ \E i \in SliceIndexes : Slice("v1", 3, i)
              /\ UNCHANGED <<baseVars, freeVars, keyVars, camVars, trailVars, restVars>>

NextSlice == XSliceCall \/ YSliceCall \/ ZSliceCall \/ ThresholdCall

SpecSlice == Init /\ [][NextSlice]_vars

\* ===================================================== the grid of renderers
GridCounts == 1 .. MaxGridN
Screens    == {<<ScreenX, ScreenY>>, <<1920, 1080>>}

PlotterGridCall ==
  /\ \E N \in GridCounts, scr \in Screens : PlotterGrid(N, scr[1], scr[2])
  /\ UNCHANGED <<baseVars, freeVars, keyVars, camVars, trailVars, restVars>>

NextGrid == PlotterGridCall

SpecGrid == Init /\ [][NextGrid]_vars

\* ================================================== locators and mesh edits
QueryCounts == {1, 2}
QueryRadii  == {0, 1}

ClosestPointCall ==
  /\ \E N \in QueryCounts, radius \in QueryRadii : closestPoint("a1", N, radius)
  /\ UNCHANGED <<baseVars, freeVars, keyVars, camVars, trailVars, restButLoc>>

NextLocator == ClosestPointCall \/ DecimateCall \/ SetPointsCall \/ PosCall

SpecLocator == Init /\ [][NextLocator]_vars

\* ============================================ show() of corner annotations
TextInputs == TextNodes \cup {"a1"}
\* the lists shown: one corner annotation at most in each call
TextLists  == UNION {{l \in [1 .. k -> TextInputs] :
                        \A i, j \in 1 .. k : i # j => ~(IsText(l[i]) /\ IsText(l[j]))} :
                     k \in 1 .. MaxListLen}

ShowText   == /\ \E acts \in TextLists, at \in AtValues : Show(TRUE, acts, at, "None")
              /\ UNCHANGED extVars
ReShowText == (\E at \in AtValues : Show(FALSE, <<>>, at, "None")) /\ UNCHANGED extVars

NextText == ShowText \/ ReShowText

SpecText == Init /\ [][NextText]_vars

\* ==================================================== the "x" key and clicks
PickLists == {<<"a1">>, <<"a1", "a2">>}

OpenPick  == /\ showCount = 0
             /\ \E acts \in PickLists, at \in Renderers : Show(TRUE, acts, at, "None")
             /\ UNCHANGED extVars
ClickPick == (\E r \in Renderers, p \in ActorNodes \cup {None} : Click(r, p))
             /\ UNCHANGED <<freeVars, trailVars, camVars, dataVars, restButPick>>
KeyXEvent == KeyX /\ UNCHANGED <<freeVars, trailVars, camVars, dataVars, restButPick>>

NextPick == OpenPick \/ ClickPick \/ KeyXEvent

SpecPick == Init /\ [][NextPick]_vars

\* ============================================== the scalar-array keys
ArrayKeys == {"k", "K"}

OpenArrays  == /\ showCount = 0
               /\ \E acts \in PickLists, at \in Renderers : Show(TRUE, acts, at, "None")
               /\ UNCHANGED extVars
ClickArrays == (\E r \in Renderers, p \in ActorNodes \cup {None} : Click(r, p))
               /\ UNCHANGED <<freeVars, trailVars, camVars, dataVars, restButPick>>
KeyKEvent   == (\E key \in ArrayKeys : KeyK(key))
               /\ UNCHANGED <<freeVars, trailVars, camVars, dataVars, restButArrays>>
Key4Event   == Key4 /\ UNCHANGED <<freeVars, trailVars, camVars, dataVars, restButArrays>>

NextArrays == OpenArrays \/ ClickArrays \/ KeyKEvent \/ Key4Event

SpecArrays == Init /\ [][NextArrays]_vars

\* ================================================== closing the window
\* Plotter.closeWindow(): finalizes the window it still has; with an
\* interactor it also terminates it and deletes both attributes
closeWindow ==
  /\ closeCount < MaxCloses
  /\ closeCount' = closeCount + 1
  /\ closeLog' = [op |-> "Plotter.closeWindow", raised |-> "none"]
  /\ IF window # "deleted"
       THEN IF interactor = "set"
              THEN window' = "deleted" /\ interactor' = "deleted"
              ELSE window' = "finalized" /\ UNCHANGED interactor
       ELSE UNCHANGED <<window, interactor>>

\* what evaluating plotterInstance.interactor.ExitCallback() raises
ExitCallbackRaises(iren) == IF iren = "set" THEN "none" ELSE "AttributeError"

\* the free function closeWindow(plotterInstance): the Plotter given, or
\* settings.plotter_instance, which Plotter.__init__ set to the Plotter
closeWindowFree ==
  LET raised == ExitCallbackRaises(interactor)
  IN
  /\ closeCount < MaxCloses
  /\ closeCount' = closeCount + 1
  /\ closeLog' = [op |-> "closeWindow", raised |-> raised]
  /\ IF raised = "none"
       THEN IF window # "deleted"
              THEN window' = "deleted" /\ interactor' = "deleted"
              ELSE UNCHANGED <<window, interactor>>
       ELSE UNCHANGED <<window, interactor>>

OpenClose       == /\ \E acts \in PickLists, at \in Renderers : Show(TRUE, acts, at, "None")
                   /\ UNCHANGED extVars
CloseWindowCall == closeWindow /\ UNCHANGED <<baseVars, freeVars, keyVars, trailVars,
                                              camVars, dataVars, restButWin>>
CloseWindowFreeCall == closeWindowFree /\ UNCHANGED <<baseVars, freeVars, keyVars,
                                              trailVars, camVars, dataVars, restButWin>>

NextClose == OpenClose \/ CloseWindowCall \/ CloseWindowFreeCall

SpecClose == Init /\ [][NextClose]_vars

\* ================================================ a caller's key handler
HandlerStyles == {0, 4}
PlainKeys     == {"Shift_L", "Alt_R", "h"}

RegisterCall   == RegisterHandler /\ UNCHANGED <<freeVars, trailVars, camVars, dataVars, restVars>>
HandlerKeypad  == (\E style \in HandlerStyles : KeypadAxes(style))
                  /\ UNCHANGED <<freeVars, trailVars, camVars, dataVars, restVars>>
PlainKeyEvent  == (\E key \in PlainKeys : KeyPlain(key)) /\ UNCHANGED <<freeVars, trailVars, camVars, dataVars, restVars>>
QuitEvent      == KeyQuit /\ UNCHANGED <<freeVars, trailVars, camVars, dataVars, restVars>>

NextHandler == \/ OpenWindow \/ RegisterCall \/ KeyMEvent \/ KeyCommaEvent \/ KeyPeriodEvent
               \/ KeySlashEvent \/ HandlerKeypad \/ PlainKeyEvent \/ QuitEvent

SpecHandler == Init /\ [][NextHandler]_vars

\* ===================================================================== claims
JustShown == lastOp.op = "show" /\ lastOp.ok
PassedTo(n) == n \in Range(lastOp.shown)

\* C1: once show(actors, at=i) has returned, renderer i displays exactly the
\* nodes passed in that call and their trail companions: every actor or volume
\* displayed there before and absent from the call has been removed.
C1_ShowDisplaysExactlyPassed ==
  JustShown => Range(scene[lastOp.at]) = Range(lastOp.shown) \ {None}

\* C9: each node's renderedAt set equals the set of renderers that display it.
C9_RenderedAtIsDisplayedIn ==
  \A n \in Node, r \in Renderers : (r \in renderedAt[n]) <=> (n \in Range(scene[r]))

C2_FirstShowCreatesOneBar ==
  \A n \in ActorNodes :
    (lastOp.op = "show" /\ showCount = 1 /\ PassedTo(n) /\ bookCount[n] = <<1, 0>>)
      => sbCount[n] = 1

\* C2 as amended: a node booked once with addScalarBar never has more than one
\* scalar-bar actor created for it, and has exactly one as soon as a show() call
\* that was passed the node has reached the rendering stage.
C2_OneBarPerBooking ==
  \A n \in ActorNodes :
    bookCount[n] = <<1, 0>> =>
      /\ sbCount[n] <= 1
      /\ (JustShown /\ PassedTo(n)) => (sbCount[n] = 1 /\ scalarbar[n][1] = "actor")

C2_Witness ==
  \E n \in ActorNodes :
    /\ bookCount[n] = <<1, 0>> /\ sbCount[n] = 1
    /\ showCount >= 2 /\ JustShown /\ PassedTo(n)

\* C10: an actor booked with addScalarBar3D has its 3D scalar bar materialized
\* by show(), exactly once.
C10_Bar3DMaterialized ==
  \A n \in ActorNodes :
    (JustShown /\ PassedTo(n) /\ bookCount[n] = <<0, 1>>) => sbCount[n] = 1

\* C3: a run of show(groups, at=[...]) that has returned has shown the k-th
\* group in renderer at[k], for every k in caller order, and has started the
\* interaction loop exactly once, after all of these shows.
C3_FreeShowPairsInOrder ==
  freePc = "returned" =>
    /\ Len(showLog) = Len(freeAt)
    /\ \A k \in DOMAIN showLog :
         /\ showLog[k].acts = freeGroups[k]
         /\ showLog[k].ok /\ showLog[k].at = freeAt[k]
         /\ showLog[k].started = 0
    /\ startCount = 1

\* C5: after a "," key press the opacity of every affected actor is at least
\* 0.01, and after a "." key press it is at most 1.0.
C5_OpacityClamped ==
  /\ lastOp.op = "comma" => \A n \in Range(lastOp.shown) : opacity[n] >= OpFloor
  /\ lastOp.op = "period" => \A n \in Range(lastOp.shown) : opacity[n] <= OpOne

C5_Witness ==
  /\ lastOp.op = "comma" /\ keyCount >= 3
  /\ \E n \in Range(lastOp.shown) : opacity[n] = OpFloor

\* C6: after a "/" key press every affected actor (the clicked one, or all
\* pickable actors of the renderer when none is selected) has opacity exactly
\* 1.0 and carries its stashed back-face property again.
C6_SlashRestores ==
  lastOp.op = "slash" =>
    \A n \in Range(lastOp.shown) :
      opacity[n] = OpOne /\ (bfprop[n] # 0 => backface[n] = bfprop[n])

\* C7: a renderer never carries more than one axes representation, and the one
\* it carries is the one recorded in its slot of axes_instances: a keypad key
\* detaches the previous representation before the new one is built.
C7_OneAxesPerRenderer ==
  \A r \in Renderers :
    /\ Cardinality(axesAttached[r]) <= 1
    /\ axesAttached[r] = (IF axes_instances[r] # 0 THEN {axes_instances[r]} ELSE {})

C7_Witness ==
  /\ lastOp.op = "keypad" /\ keyCount >= 2 /\ axesSerial >= 3
  /\ Cardinality(axesAttached[renderer]) = 1

SpacingSq(n, i) == NormSq(VecSub(trailPoints[n][i + 1][2], trailPoints[n][i][2]))
Recorded(n) == trail[n] # None /\ trailPoints[n][1][1] = "pt"
FarApart(n, i) ==
  SpacingSq(n, i) * trailSegmentSize[n][2] * trailSegmentSize[n][2]
    >= trailSegmentSize[n][1] * trailSegmentSize[n][1]

\* C8 as stated: once the actor has travelled a straight path at least
\* maxlength long, the trail buffer holds n points whose consecutive spacing
\* is never below maxlength / n.
C8_SpacingAfterFullPath ==
  \A n \in ActorNodes :
    (trail[n] # None /\ pathLen[n] >= trailSegmentSize[n][1]) =>
      /\ Len(trailPoints[n]) = trailSegmentSize[n][2]
      /\ Recorded(n)
      /\ \A i \in 1 .. (Len(trailPoints[n]) - 1) : FarApart(n, i)

\* C8 as amended: the trail buffer always holds n entries; once a position
\* has been recorded, two consecutive points are at least maxlength / n apart
\* unless both belong to the leading run of copies of the first recorded
\* position that has not been cycled out yet.
C8_SpacingOrLeadingCopies ==
  \A n \in ActorNodes :
    trail[n] # None =>
      /\ Len(trailPoints[n]) = trailSegmentSize[n][2]
      /\ Recorded(n) =>
           \A i \in 1 .. (Len(trailPoints[n]) - 1) :
             \/ FarApart(n, i)
             \/ \A j \in 1 .. (i + 1) : trailPoints[n][j] = trailPoints[n][1]

C8_Witness ==
  /\ Recorded("a1") /\ pathLen["a1"] >= trailSegmentSize["a1"][1]
  /\ Len(trailPoints["a1"]) = 3
  /\ trailSegmentSize["a1"][1] > trailSegmentSize["a1"][2]
  /\ \A i \in 1 .. 2 : FarApart("a1", i)

\* C11: with a key handler registered, a key press other than a lone modifier
\* is handed to the handler and no built-in shortcut has acted on it; a lone
\* modifier key is never handed to the handler.
C11_HandlerBeforeShortcuts ==
  keyLog.registered =>
    IF keyLog.key \in ModifierKeys THEN ~keyLog.handed
    ELSE keyLog.handed /\ ~keyLog.builtin

C13_ShowReturnsSelf ==
  lastOp.op = "show" => lastOp.ret = "self"

\* C14 as stated: the camera's view-up is set by show() at most once, and only
\* by the very first show() call of the Plotter.
C14_ViewupOnlyAtFirstShow ==
  viewupCount <= 1 /\ viewupShow \in {0, 1}

\* C14 as amended: the camera's view-up is set by show() at most once, by the
\* first show() call that gets as far as the camera with a non-empty `viewup`
\* (whether or not it is the Plotter's first call); it is set only if that value
\* is "x", "y" or "z", and no later `viewup` changes it.
C14_ViewupOnlyFirstAsked ==
  /\ viewupCount <= 1
  /\ first_viewup <=> viewupAsked = <<>>
  /\ IF viewupAsked # <<>> /\ viewupAsked[1] \in ViewAxes
       THEN viewUp = viewupAsked[1] /\ viewupCount = 1
       ELSE viewUp = "default" /\ viewupCount = 0

C14_Witness ==
  /\ Len(viewupAsked) >= 2 /\ viewupAsked[2] \in ViewAxes
  /\ viewupAsked[1] # viewupAsked[2]
  /\ viewUp = viewupAsked[1] /\ viewupShow = 2

\* C15: after a position mutation of a node that has a shadow, the shadow's
\* position is the node's position with the coordinate along the projection
\* axis replaced by the plane value given to the addShadow call that created
\* the shadow.
C15_ShadowTracksNode ==
  \A n \in ActorNodes :
    (shadow[n] # None /\ lastOp.op = "move" /\ lastOp.shown = <<n>>) =>
      position[shadow[n]] = WithCoord(position[n], shadowPlane[n][1], shadowPlane[n][2])

\* C16: after any sequence of show() calls, each renderer displays at most one
\* corner text annotation.
C16_OneTextPerRenderer ==
  \A r \in Renderers : Cardinality({c \in TextNodes : c \in Range(scene[r])}) <= 1

\* C17: Volume.threshold() called without replaceWith fails loudly: the error
\* is printed and raised, and the volume's image buffer is not replaced.
C17_ThresholdNeedsReplaceWith ==
  (lastCall.op = "threshold" /\ lastCall.arg[3][1] = "None") =>
    /\ lastCall.raised = "RuntimeError" /\ lastCall.printed
    /\ imageSerial[lastCall.target] = lastCall.before.serial
    /\ voxels[lastCall.target] = lastCall.before.data

C17_Witness ==
  /\ lastCall.op = "threshold" /\ lastCall.arg[3][1] = "None" /\ lastCall.arg[1][1] = "val"
  /\ lastCall.raised = "RuntimeError" /\ lastCall.before.serial > 0

\* C18: after setPoints(newCoords) on an Actor, whatever its transform was,
\* coordinates() returns newCoords and the node's transform is the identity.
C18_SetPointsResets ==
  lastCall.op = "setPoints" =>
    /\ coordinates(lastCall.target, TRUE) = lastCall.arg
    /\ IsIdentity(lastCall.target)

C18_Witness ==
  /\ lastCall.op = "setPoints" /\ lastCall.before.matrix = <<<<1, 0, 0>>, 1>>
  /\ lastCall.arg # lastCall.before.data
  /\ coordinates(lastCall.target, TRUE) = lastCall.arg

\* C19: decimate(N=N) with N at least the point count of a non-empty mesh, in
\* particular twice that count, returns the same node unmodified: the mesh
\* buffer is not replaced.
C19_DecimateNoOp ==
  (lastCall.op = "decimate" /\ lastCall.arg[1] # 0 /\ Len(lastCall.before.data) > 0
     /\ lastCall.arg[1] >= Len(lastCall.before.data)) =>
    /\ lastCall.raised = "none" /\ lastCall.ret = "self"
    /\ meshSerial[lastCall.target] = lastCall.before.serial
    /\ points[lastCall.target] = lastCall.before.data

C19_Witness ==
  /\ lastCall.op = "decimate" /\ Len(lastCall.before.data) > 0
  /\ lastCall.arg[1] = 2 * Len(lastCall.before.data)
  /\ lastCall.ret = "self" /\ meshSerial[lastCall.target] = lastCall.before.serial

\* C20: thinPlateSpline called with source and target landmark lists of
\* different lengths prints a diagnostic and raises a runtime error instead of
\* computing a warp.
C20_MismatchRaises ==
  (lastCall.op = "thinPlateSpline" /\ Len(lastCall.arg[1]) # Len(lastCall.arg[2])) =>
    lastCall.raised = "RuntimeError" /\ lastCall.printed

\* C21: the "x" press that follows an "x" press which removed the clicked
\* actor from its renderer re-adds that same actor there, also when mouse
\* clicks occurred between the two presses.
C21_SecondPressReAdds ==
  (lastOp.op = "x" /\ xLog.prev # None) => xLog.prev \in Range(scene[xLog.prevAt])

\* the first array of names whose name is not "Normals", None if there is none
FirstNamed(names) ==
  IF \E i \in DOMAIN names : names[i] # "Normals"
    THEN names[CHOOSE i \in DOMAIN names :
                 names[i] # "Normals" /\ \A j \in 1 .. (i - 1) : names[j] = "Normals"]
  ELSE None

\* C22: after a press of "k" (of "K") every actor of the renderer has as active
\* scalars the first point (cell) array whose name is not "Normals".
C22_FirstArrayActive ==
  /\ lastOp.op = "k" =>
       \A n \in Range(lastOp.shown) :
         FirstNamed(PointArrays(n)) # None => activePoint[n] = FirstNamed(PointArrays(n))
  /\ lastOp.op = "K" =>
       \A n \in Range(lastOp.shown) :
         FirstNamed(CellArrays(n)) # None => activeCell[n] = FirstNamed(CellArrays(n))

\* C23: the presses of "4" never make a normals array the active scalars of
\* an Actor.
C23_NormalsNeverActive ==
  \A n \in ActorNodes : activePoint[n] # "Normals" /\ activeCell[n] # "Normals"

\* C24: xSlice, ySlice and zSlice return an Actor whose slice index lies in
\* the valid range [0, dim - 1] of the axis, for every integer index asked for.
C24_SliceIndexClamped ==
  lastCall.op = "slice" =>
    /\ lastCall.ret[1] = "Actor"
    /\ 0 <= lastCall.ret[3]
    /\ lastCall.ret[3] <= Dimensions(lastCall.target)[lastCall.ret[2]] - 1

\* C25: the grid shape chosen for a Plotter constructed with a renderer count
\* N accommodates N and has the smallest cell count among the nine candidate
\* shapes that accommodate N.
C25_GridAccommodates ==
  lastCall.op = "Plotter" =>
    LET N     == lastCall.arg[1]
        lm    == GridList(N, lastCall.arg[2], lastCall.arg[3])
        cells == lastCall.ret[1] * lastCall.ret[2]
    IN /\ cells >= N
       /\ \A i \in DOMAIN lm : lm[i][1] * lm[i][2] >= N => cells <= lm[i][1] * lm[i][2]

\* C26: a locator that closestPoint has built for an Actor is never cleared
\* or rebuilt, whatever operation follows, a replacement of the mesh buffer
\* included: every later closestPoint call answers with that same locator.
C26_LocatorKept ==
  [][\A n \in ActorNodes :
       /\ point_locator[n] # NoLocator => point_locator'[n] = point_locator[n]
       /\ cell_locator[n] # NoLocator => cell_locator'[n] = cell_locator[n]
       /\ (lastCall'.op = "closestPoint" /\ lastCall' # lastCall /\ lastCall'.target = n) =>
            \/ lastCall'.ret = point_locator[n] /\ point_locator[n] # NoLocator
            \/ lastCall'.ret = cell_locator[n] /\ cell_locator[n] # NoLocator
            \/ lastCall'.ret[1] = locSerial + 1]_vars

\* a query answered by a locator built on a buffer that has been replaced since
C26_Witness ==
  /\ lastCall.op = "closestPoint"
  /\ lastCall.ret[1] # 0 /\ lastCall.ret[2] < meshSerial["a1"]
  /\ lastCall.ret \in {point_locator["a1"], cell_locator["a1"]}

\* C27: a scalar bar displayed in a renderer is still displayed there after a
\* show() call on that renderer in which the bar's node is shown.
C27_BarStaysDisplayed ==
  [][\A r \in Renderers : \A b \in barsShown[r] :
       (showCount' = showCount + 1 /\ lastOp'.op = "show" /\ lastOp'.ok /\ lastOp'.at = r
          /\ b[1] \in Range(lastOp'.shown)) => b \in barsShown'[r]]_vars

\* C28: a show() call with a renderer index that is not smaller than the number
\* of renderers leaves the Plotter as it was: self.actors, the current renderer
\* and the contents of every renderer are unchanged.
C28_WrongIndexChangesNothing ==
  [][(showCount' = showCount + 1 /\ lastOp'.op = "show" /\ lastOp'.at >= nrend) =>
       /\ ~lastOp'.ok
       /\ actors' = actors /\ renderer' = renderer /\ scene' = scene]_vars

\* C29: an Actor's back-face property is detached only while its opacity is
\* below 1: a call that leaves the opacity at 1 keeps the property the actor
\* carries, stashed before or not, and a call that brings the opacity back to 1
\* re-attaches the stashed property.
C29_BackfaceAtFullOpacity ==
  [][\A n \in ActorNodes :
       /\ (backface[n] # 0 /\ opacity'[n] >= OpOne) => backface'[n] = backface[n]
       /\ (backface[n] = 0 /\ bfprop[n] # 0 /\ opacity[n] < OpOne /\ opacity'[n] >= OpOne)
            => backface'[n] = bfprop[n]]_vars

\* C30: no closeWindow() call raises, whether the Plotter is off screen (its
\* interactor is None) or its window was closed by an earlier closeWindow().
C30_CloseNeverRaises == closeLog.raised = "none"

====
